---- MODULE Spec2Model ----
(***************************************************************************)
(* Training-dynamics metrics engine (sequence_tagger_model.py) and the     *)
(* category-based label-remediation pipeline                               *)
(* (pipeline_sample_metrics_token_categories.py).                          *)
(*                                                                         *)
(* Probabilities are scaled integers: a softmax vector is a function from  *)
(* label index to 0..Scale whose entries sum to Scale.  Quotients by the   *)
(* epoch count n are kept exact by expressing them in units of 1/K, K the  *)
(* least common multiple of every epoch count the model can reach.         *)
(***************************************************************************)
EXTENDS Integers, Sequences, FiniteSets, TLC

VARIABLES
  \* ---- metrics engine ----
  metric_history,   \* token -> its metric_history dict (empty = never initialised)
  hist_pc,          \* position inside calculate_and_log_metrics
  pending,          \* what _calculate_metrics returned, waiting for _log_metrics
  logged,           \* token -> the last metric row written to the epoch log
  visits,           \* token -> number of completed batches that contained it
  fed,              \* token -> correctness flags fed since its last initialisation
  probs,            \* token -> true-label probabilities fed since its last initialisation
  batches_done,     \* number of calls of calculate_and_log_metrics so far
  \* ---- remediation pipeline ----
  ner_bio,          \* sentence -> observed tag of each token       (ner_bio)
  ner,              \* sentence -> observed spans                   (ner)
  predicted_bio,    \* sentence -> prediction of each token         (predicted_bio)
  metric,           \* sentence -> metric value of each token
  ner_new_bio,      \* sentence -> working tag of each token        (ner_new_bio)
  ner_new,          \* sentence -> spans of the new column          (ner_new)
  call,             \* the last mask/relabel call: arguments, tags before, counters
  config,           \* modify_category1..4 of the experiment configuration
  category_configs, \* the schedule built by main
  run_pc,           \* position inside main / run_experiment
  step_idx,         \* number of schedule steps applied so far
  applied,          \* the steps applied so far, in application order
  epoch_logs,       \* epoch -> the rows of epoch_log_<epoch>.log read so far
  log_files,        \* the epochs whose epoch_log_<epoch>.log exists on disk
  noise_f1s,        \* run_experiment's list noise_f1s
  step_returns,     \* what the mask/relabel call of each applied step returned
  written,          \* file name -> content, for the files run_experiment has written
  error             \* the exception that ended run_experiment, if any

hvars == <<metric_history, hist_pc, pending, logged, visits, fed, probs, batches_done>>
dvars == <<ner_bio, ner, predicted_bio, metric, ner_new_bio, ner_new, call>>
rvars == <<config, category_configs, run_pc, step_idx, applied, epoch_logs>>
ovars == <<log_files, noise_f1s, step_returns, written, error>>
vars == <<metric_history, hist_pc, pending, logged, visits, fed, probs, batches_done,
          ner_bio, ner, predicted_bio, metric, ner_new_bio, ner_new, call,
          config, category_configs, run_pc, step_idx, applied, epoch_logs,
          log_files, noise_f1s, step_returns, written, error>>

(***************************************************************************)
(* Generic helpers                                                         *)
(***************************************************************************)
Range(s) == {s[i] : i \in DOMAIN s}

RECURSIVE SumSeq(_)
SumSeq(s) == IF s = <<>> THEN 0 ELSE Head(s) + SumSeq(Tail(s))

RECURSIVE Gcd(_, _)
Gcd(a, b) == IF b = 0 THEN a ELSE Gcd(b, a % b)

RECURSIVE LcmUpTo(_)
LcmUpTo(n) == IF n <= 1 THEN 1 ELSE (LcmUpTo(n - 1) * n) \div Gcd(LcmUpTo(n - 1), n)

NoDup(s) == \A i, j \in DOMAIN s : i # j => s[i] # s[j]

(***************************************************************************)
(* Bounds and inputs of the metrics engine                                 *)
(***************************************************************************)
MaxBatches == 3          \* calls of calculate_and_log_metrics per run
Scale == 3               \* a probability p is the integer p * Scale

\* the tag dictionary of the tagger; tagset_size is its length
LabelDictionary == <<"O", "S-LOC">>
tagset_size == Len(LabelDictionary)
LabelIdx == 0 .. tagset_size - 1

\* sentences of the training corpus, given by their lengths
CorpusLens == <<1, 1>>
HSents == DOMAIN CorpusLens
HTokens == UNION {{<<s, i>> : i \in 1..CorpusLens[s]} : s \in HSents}

\* observed (gold) label index of every token
GoldOf(t) == (t[1] + t[2]) % tagset_size

\* softmax vectors with a unique maximum
Dists == {d \in [LabelIdx -> 0..Scale] :
            /\ SumSeq([i \in 1..tagset_size |-> d[i - 1]]) = Scale
            /\ \E i \in LabelIdx : \A j \in LabelIdx \ {i} : d[j] < d[i]}

\* every epoch count the run can reach divides K
K == LcmUpTo(MaxBatches)

Batches == {b \in UNION {[1..n -> HSents] : n \in 1..Len(CorpusLens)} : NoDup(b)}

RECURSIVE Flatten(_)
\* the tokens of a batch in the order "for sent in sentences: for token in sent"
Flatten(b) ==
  IF b = <<>> THEN <<>>
  ELSE [i \in 1..CorpusLens[Head(b)] |-> <<Head(b), i>>] \o Flatten(Tail(b))

(***************************************************************************)
(* calculate_mild_f / calculate_mild_m                                     *)
(***************************************************************************)
RECURSIVE SplitOn(_, _, _)
\* str.split(sep) of a flag string: the fragments between occurrences of sep,
\* empty fragments included; cur is the fragment being read
SplitOn(s, sep, cur) ==
  IF s = <<>> THEN <<cur>>
  ELSE IF Head(s) = sep THEN <<cur>> \o SplitOn(Tail(s), sep, <<>>)
       ELSE SplitOn(Tail(s), sep, Append(cur, Head(s)))

RECURSIVE JoinAll(_)
JoinAll(frags) == IF frags = <<>> THEN <<>> ELSE Head(frags) \o JoinAll(Tail(frags))

NonEmptyFragments(frags) == SelectSeq(frags, LAMBDA f : f # <<>>)

\* calculate_mild_f that returns the number of forgetting episodes instead
\* of their total length
calculate_mild_f_counting_episodes(flags) ==
  LET forgetting_list == NonEmptyFragments(SplitOn(flags, 0, <<>>))
  IN  IF Len(forgetting_list) # 0 THEN Len(forgetting_list) ELSE 0

calculate_mild_f(flags) ==
  LET forgetting_list == NonEmptyFragments(SplitOn(flags, 0, <<>>))
  IN  IF Len(forgetting_list) # 0 THEN Len(JoinAll(forgetting_list)) ELSE 0

\* calculate_mild_m that leaves out a run of 0s at the start of the flags
calculate_mild_m_skipping_leading_run(flags) ==
  LET memorization_list == NonEmptyFragments(Tail(SplitOn(flags, 1, <<>>)))
  IN  IF Len(memorization_list) # 0 THEN Len(JoinAll(memorization_list)) ELSE 0

calculate_mild_m(flags) ==
  LET memorization_list == NonEmptyFragments(SplitOn(flags, 1, <<>>))
  IN  IF Len(memorization_list) # 0 THEN Len(JoinAll(memorization_list)) ELSE 0

(***************************************************************************)
(* Token.metric_history accessors                                          *)
(***************************************************************************)
EmptyHistory == [k \in {} |-> 0]

has_history(mh, t) == "hist_prediction" \in DOMAIN mh[t]

\* an initial history whose last_prediction is a label index instead of -1
InitialHistory_with_label_as_last_prediction ==
  [last_prediction |-> 0,
   last_confidence_sum |-> 0,
   last_sq_difference_sum |-> 0,
   last_correctness_sum |-> 0,
   last_iteration |-> 0,
   total_epochs |-> 0,
   hist_prediction |-> [i \in LabelIdx |-> 0],
   hist_MILD |-> <<0>>]

\* the eight history variables set on a token at initialisation
InitialHistory ==
  [last_prediction |-> -1,
   last_confidence_sum |-> 0,
   last_sq_difference_sum |-> 0,
   last_correctness_sum |-> 0,
   last_iteration |-> 0,
   total_epochs |-> 0,
   hist_prediction |-> [i \in LabelIdx |-> 0],
   hist_MILD |-> <<0>>]

\* _init_metrics_logging: only the first token of the first sentence is
\* looked at; when it has no history every token of the batch is initialised
init_metrics_logging(mh, batch) ==
  IF ~ has_history(mh, <<batch[1], 1>>)
  THEN [t \in HTokens |-> IF t[1] \in Range(batch) THEN InitialHistory ELSE mh[t]]
  ELSE mh

\* _get_history_metrics_for_batch reads every history variable of every token
history_readable(mh, batch) == \A t \in Range(Flatten(batch)) : has_history(mh, t)

(***************************************************************************)
(* _calculate_metrics for one token                                        *)
(***************************************************************************)
\* index of the largest entry: np.argsort(softmax)[::-1][0]
ArgMax(d) == CHOOSE i \in LabelIdx : \A j \in LabelIdx \ {i} : d[j] < d[i]
\* index of the second largest entry (ties between the rest go to the higher index)
ArgSecond(d) ==
  CHOOSE i \in LabelIdx \ {ArgMax(d)} :
    \A j \in LabelIdx \ {ArgMax(d), i} : d[j] < d[i] \/ (d[j] = d[i] /\ j < i)

\* updated_history whose confidence sum starts from zero instead of from
\* last_confidence_sum
updated_history_dropping_sum(h, softmax_token, gold_label) ==
  LET prediction == ArgMax(softmax_token)
      total_epochs == h.total_epochs + 1
      probability_of_true_label == softmax_token[gold_label]
      confidence_sum == probability_of_true_label
      difference == probability_of_true_label * K - (confidence_sum * K) \div total_epochs
      prediction_correct == IF prediction = gold_label THEN 1 ELSE 0
  IN  [last_prediction |-> prediction,
       last_confidence_sum |-> confidence_sum,
       last_sq_difference_sum |-> h.last_sq_difference_sum + difference * difference,
       last_correctness_sum |-> h.last_correctness_sum + prediction_correct,
       last_iteration |-> IF prediction # h.last_prediction THEN total_epochs
                          ELSE h.last_iteration,
       total_epochs |-> total_epochs,
       hist_prediction |-> [h.hist_prediction EXCEPT ![prediction] = @ + 1],
       hist_MILD |-> Append(h.hist_MILD, prediction_correct)]

updated_history(h, softmax_token, gold_label) ==
  LET prediction == ArgMax(softmax_token)
      total_epochs == h.total_epochs + 1
      probability_of_true_label == softmax_token[gold_label]
      confidence_sum == h.last_confidence_sum + probability_of_true_label
      \* (p_y - confidence_sum / n) in units of 1 / (Scale * K)
      difference == probability_of_true_label * K - (confidence_sum * K) \div total_epochs
      prediction_correct == IF prediction = gold_label THEN 1 ELSE 0
  IN  [last_prediction |-> prediction,
       last_confidence_sum |-> confidence_sum,
       last_sq_difference_sum |-> h.last_sq_difference_sum + difference * difference,
       last_correctness_sum |-> h.last_correctness_sum + prediction_correct,
       last_iteration |-> IF prediction # h.last_prediction THEN total_epochs
                          ELSE h.last_iteration,
       total_epochs |-> total_epochs,
       hist_prediction |-> [h.hist_prediction EXCEPT ![prediction] = @ + 1],
       hist_MILD |-> Append(h.hist_MILD, prediction_correct)]

token_metrics(h, softmax_token, gold_label) ==
  LET u == updated_history(h, softmax_token, gold_label)
      mild_m == calculate_mild_m(u.hist_MILD)
      mild_f == calculate_mild_f(u.hist_MILD)
  IN  [msp |-> softmax_token[ArgMax(softmax_token)],
       BvSB |-> softmax_token[ArgMax(softmax_token)] - softmax_token[ArgSecond(softmax_token)],
       confidence |-> <<u.last_confidence_sum, u.total_epochs>>,
       variability_sq |-> <<u.last_sq_difference_sum, u.total_epochs>>,
       correctness |-> <<u.last_correctness_sum, u.total_epochs>>,
       iter_norm |-> <<u.last_iteration, u.total_epochs>>,
       mild_m |-> mild_m,
       mild_f |-> mild_f,
       mild |-> mild_m - mild_f]

NoPending == [batch |-> <<>>]
NoRow == [k \in {} |-> 0]

(***************************************************************************)
(* calculate_and_log_metrics, in its two halves                            *)
(***************************************************************************)
\* _init_metrics_logging, _get_history_metrics_for_batch and _calculate_metrics.
\* count_predictions_history is the list stored on the token, so the
\* increment of hist_prediction is visible on the token and in
\* history_metrics_dict at once; history_read keeps the values as they were
\* read.
CalculateMetrics(batch, scores) ==
  /\ hist_pc = "idle"
  /\ batches_done < MaxBatches
  /\ LET mh0 == init_metrics_logging(metric_history, batch)
         toks == Range(Flatten(batch))
     IN  /\ history_readable(mh0, batch)
         /\ pending' = [batch |-> batch,
                        history_read |-> [t \in toks |-> mh0[t]],
                        history_metrics_dict |->
                          [t \in toks |->
                             [mh0[t] EXCEPT !.hist_prediction =
                                updated_history(mh0[t], scores[t], GoldOf(t)).hist_prediction]],
                        updated_history_metrics_dict |->
                          [t \in toks |-> updated_history(mh0[t], scores[t], GoldOf(t))],
                        metrics_dict |->
                          [t \in toks |-> token_metrics(mh0[t], scores[t], GoldOf(t))]]
         /\ metric_history' =
              [t \in HTokens |->
                 IF t \in toks
                 THEN [mh0[t] EXCEPT !.hist_prediction =
                         updated_history(mh0[t], scores[t], GoldOf(t)).hist_prediction]
                 ELSE mh0[t]]
         /\ fed' = [t \in HTokens |->
                      IF t \in toks /\ ~ has_history(metric_history, <<batch[1], 1>>)
                      THEN <<>> ELSE fed[t]]
         /\ probs' = [t \in HTokens |->
                        IF t \in toks
                        THEN Append(IF has_history(metric_history, <<batch[1], 1>>)
                                    THEN probs[t] ELSE <<>>,
                                    scores[t][GoldOf(t)])
                        ELSE probs[t]]
  /\ hist_pc' = "calculated"
  /\ UNCHANGED <<logged, visits, batches_done>>
  /\ UNCHANGED dvars
  /\ UNCHANGED rvars
  /\ UNCHANGED ovars

\* a token of the batch has no history although the first one has: reading
\* its history variables raises and the run ends
CalculateMetricsRaises(batch) ==
  /\ hist_pc = "idle"
  /\ batches_done < MaxBatches
  /\ ~ history_readable(init_metrics_logging(metric_history, batch), batch)
  /\ hist_pc' = "raised"
  /\ UNCHANGED <<metric_history, pending, logged, visits, fed, probs, batches_done>>
  /\ UNCHANGED dvars
  /\ UNCHANGED rvars
  /\ UNCHANGED ovars

\* _log_metrics that stores the prediction counts as they were read
LogMetrics_storing_counts_as_read ==
  /\ hist_pc = "calculated"
  /\ LET toks == Range(Flatten(pending.batch))
     IN  /\ metric_history' =
               [t \in HTokens |->
                  IF t \in toks
                  THEN [pending.updated_history_metrics_dict[t] EXCEPT
                          !.hist_prediction = pending.history_read[t].hist_prediction]
                  ELSE metric_history[t]]
         /\ logged' = [t \in HTokens |->
                         IF t \in toks THEN pending.metrics_dict[t] ELSE logged[t]]
         /\ visits' = [t \in HTokens |-> IF t \in toks THEN visits[t] + 1 ELSE visits[t]]
         /\ fed' = [t \in HTokens |->
                      IF t \in toks
                      THEN Append(fed[t],
                                  pending.updated_history_metrics_dict[t].last_correctness_sum
                                  - pending.history_metrics_dict[t].last_correctness_sum)
                      ELSE fed[t]]
  /\ pending' = NoPending
  /\ hist_pc' = "idle"
  /\ batches_done' = batches_done + 1
  /\ UNCHANGED probs
  /\ UNCHANGED dvars
  /\ UNCHANGED rvars
  /\ UNCHANGED ovars

\* _log_metrics: the row is written and the updated history is stored
LogMetrics ==
  /\ hist_pc = "calculated"
  /\ LET toks == Range(Flatten(pending.batch))
     IN  /\ metric_history' =
               [t \in HTokens |->
                  IF t \in toks THEN pending.updated_history_metrics_dict[t]
                  ELSE metric_history[t]]
         /\ logged' = [t \in HTokens |->
                         IF t \in toks THEN pending.metrics_dict[t] ELSE logged[t]]
         /\ visits' = [t \in HTokens |-> IF t \in toks THEN visits[t] + 1 ELSE visits[t]]
         /\ fed' = [t \in HTokens |->
                      IF t \in toks
                      THEN Append(fed[t],
                                  pending.updated_history_metrics_dict[t].last_correctness_sum
                                  - pending.history_metrics_dict[t].last_correctness_sum)
                      ELSE fed[t]]
  /\ pending' = NoPending
  /\ hist_pc' = "idle"
  /\ batches_done' = batches_done + 1
  /\ UNCHANGED probs
  /\ UNCHANGED dvars
  /\ UNCHANGED rvars
  /\ UNCHANGED ovars

HistInit ==
  /\ metric_history = [t \in HTokens |-> EmptyHistory]
  /\ hist_pc = "idle"
  /\ pending = NoPending
  /\ logged = [t \in HTokens |-> NoRow]
  /\ visits = [t \in HTokens |-> 0]
  /\ fed = [t \in HTokens |-> <<>>]
  /\ probs = [t \in HTokens |-> <<>>]
  /\ batches_done = 0

(***************************************************************************)
(* EarlyExitSequenceTagger._calculate_layer_metrics for one token.  Layers *)
(* keep their Python indices 0..n_layers-1; scores[i + 1] is the softmax   *)
(* of layer i.                                                             *)
(***************************************************************************)
\* the loop variables before the first iteration
LayerLoopStart(n_layers) ==
  [pd |-> n_layers,
   final_pd |-> FALSE,
   fl |-> n_layers,
   total_agree_w_last |-> 0,
   total_agree_w_correct |-> 0]

\* the loop body that assigns fl only while it still holds its default, so
\* that the highest matching layer is kept
layer_step_keeping_highest(st, i, pred_labels, gold_label) ==
  LET a == IF pred_labels[i + 1] = gold_label
           THEN [st EXCEPT !.fl = IF @ = Len(pred_labels) THEN i ELSE @,
                           !.total_agree_w_correct = @ + 1]
           ELSE st
  IN  IF pred_labels[i + 1] = pred_labels[Len(pred_labels)]
      THEN [a EXCEPT !.pd = IF a.final_pd THEN @ ELSE @ - 1,
                     !.total_agree_w_last = @ + 1]
      ELSE [a EXCEPT !.final_pd = TRUE]

\* one iteration of "for i in range(self.n_layers - 1, -1, -1)"
layer_step(st, i, pred_labels, gold_label) ==
  LET a == IF pred_labels[i + 1] = gold_label
           THEN [st EXCEPT !.fl = i, !.total_agree_w_correct = @ + 1]
           ELSE st
  IN  IF pred_labels[i + 1] = pred_labels[Len(pred_labels)]
      THEN [a EXCEPT !.pd = IF a.final_pd THEN @ ELSE @ - 1,
                     !.total_agree_w_last = @ + 1]
      ELSE [a EXCEPT !.final_pd = TRUE]

RECURSIVE layer_scan(_, _, _, _)
\* the iterations i, i - 1, .., 0
layer_scan(st, i, pred_labels, gold_label) ==
  IF i < 0 THEN st
  ELSE layer_scan(layer_step(st, i, pred_labels, gold_label), i - 1, pred_labels, gold_label)

\* torch.bincount(pred_labels, minlength=len(label_dictionary)), the counts
\* that the layer entropy is computed from
layer_frequencies(pred_labels) ==
  [l \in LabelIdx |-> Cardinality({i \in DOMAIN pred_labels : pred_labels[i] = l})]

\* _calculate_layer_metrics whose loop starts at the penultimate layer
calculate_layer_metrics_from_penultimate(scores, gold_label, n_layers) ==
  LET pred_labels == [i \in 1..Len(scores) |-> ArgMax(scores[i])]
      st == layer_scan(LayerLoopStart(n_layers), n_layers - 2, pred_labels, gold_label)
  IN  [prediction_depth |-> st.pd,
       first_layer |-> st.fl,
       frequencies |-> layer_frequencies(pred_labels),
       total_agree_w_last |-> st.total_agree_w_last,
       total_agree_w_correct |-> st.total_agree_w_correct]

\* the loop starts at i = n_layers - 1, the last layer itself
calculate_layer_metrics(scores, gold_label, n_layers) ==
  LET pred_labels == [i \in 1..Len(scores) |-> ArgMax(scores[i])]
      st == layer_scan(LayerLoopStart(n_layers), n_layers - 1, pred_labels, gold_label)
  IN  [prediction_depth |-> st.pd,
       first_layer |-> st.fl,
       frequencies |-> layer_frequencies(pred_labels),
       total_agree_w_last |-> st.total_agree_w_last,
       total_agree_w_correct |-> st.total_agree_w_correct]

(***************************************************************************)
(* BIOES tags.  A tag string is looked up in TagTable for its prefix       *)
(* (tag[:2] without the dash) and its entity type (tag[2:], the part       *)
(* after the dash).  Entity types are single words, none a suffix of       *)
(* another, so value.endswith(type) is equality of the types.              *)
(***************************************************************************)
TagTable ==
  {<<"O", "O", "">>,
   <<"B-LOC", "B", "LOC">>, <<"I-LOC", "I", "LOC">>,
   <<"E-LOC", "E", "LOC">>, <<"S-LOC", "S", "LOC">>,
   <<"B-PER", "B", "PER">>, <<"I-PER", "I", "PER">>,
   <<"E-PER", "E", "PER">>, <<"S-PER", "S", "PER">>,
   <<"B-MASK", "B", "MASK">>, <<"I-MASK", "I", "MASK">>,
   <<"E-MASK", "E", "MASK">>, <<"S-MASK", "S", "MASK">>}

AllTags == {r[1] : r \in TagTable}
TagPrefix(tag) == (CHOOSE r \in TagTable : r[1] = tag)[2]
TagType(tag) == (CHOOSE r \in TagTable : r[1] = tag)[3]
MakeTag(prefix, type) == (CHOOSE r \in TagTable : r[2] = prefix /\ r[3] = type)[1]

\* value.endswith(suffix) for an entity type or 'MASK' as suffix
EndsWith(tag, suffix) == tag # "O" /\ TagType(tag) = suffix

(***************************************************************************)
(* Spans of a sentence: <<first, last, value>> with 1-based token          *)
(* positions.  A span object carries one label per label type, so setting  *)
(* the label of a span that already has one replaces its value.            *)
(***************************************************************************)
SpanSetLabel(spans, first, last, value) ==
  {x \in spans : ~ (x[1] = first /\ x[2] = last)} \cup {<<first, last, value>>}

\* add_bioes_ner_tags that writes I- on the token of a single-token span
add_bioes_ner_tags_single_as_inside(spans, n) ==
  [i \in 1..n |->
     IF \E x \in spans : x[1] = i /\ x[2] = i
       THEN MakeTag("I", (CHOOSE x \in spans : x[1] = i /\ x[2] = i)[3])
     ELSE IF \E x \in spans : x[1] = i /\ x[2] > i
       THEN MakeTag("B", (CHOOSE x \in spans : x[1] = i /\ x[2] > i)[3])
     ELSE IF \E x \in spans : x[2] = i /\ x[1] < i
       THEN MakeTag("E", (CHOOSE x \in spans : x[2] = i /\ x[1] < i)[3])
     ELSE IF \E x \in spans : x[1] < i /\ i < x[2]
       THEN MakeTag("I", (CHOOSE x \in spans : x[1] < i /\ i < x[2])[3])
     ELSE "O"]

\* add_bioes_ner_tags: every token starts as O, then every span writes
\* S- on a single token, or B- ... I- ... E- on a longer range
add_bioes_ner_tags(spans, n) ==
  [i \in 1..n |->
     IF \E x \in spans : x[1] = i /\ x[2] = i
       THEN MakeTag("S", (CHOOSE x \in spans : x[1] = i /\ x[2] = i)[3])
     ELSE IF \E x \in spans : x[1] = i /\ x[2] > i
       THEN MakeTag("B", (CHOOSE x \in spans : x[1] = i /\ x[2] > i)[3])
     ELSE IF \E x \in spans : x[2] = i /\ x[1] < i
       THEN MakeTag("E", (CHOOSE x \in spans : x[2] = i /\ x[1] < i)[3])
     ELSE IF \E x \in spans : x[1] < i /\ i < x[2]
       THEN MakeTag("I", (CHOOSE x \in spans : x[1] < i /\ i < x[2])[3])
     ELSE "O"]

\* _get_gold_labels whose loop over the interior runs to span[-1].idx, one
\* index too far, so that the I- tag overwrites the E- tag
get_gold_labels_interior_to_last(spans, n, tag_format) ==
  LET label_at(j) ==
        IF tag_format = "BIOES"
        THEN IF \E x \in spans : x[1] < x[2] /\ x[1] <= j /\ j < x[2]
               THEN MakeTag("I", (CHOOSE x \in spans : x[1] < x[2] /\ x[1] <= j /\ j < x[2])[3])
             ELSE IF \E x \in spans : x[1] = x[2] /\ x[1] - 1 = j
               THEN MakeTag("S", (CHOOSE x \in spans : x[1] = x[2] /\ x[1] - 1 = j)[3])
             ELSE IF \E x \in spans : x[1] < x[2] /\ x[1] - 1 = j
               THEN MakeTag("B", (CHOOSE x \in spans : x[1] < x[2] /\ x[1] - 1 = j)[3])
             ELSE "O"
        ELSE IF \E x \in spans : x[1] <= j /\ j < x[2]
               THEN MakeTag("I", (CHOOSE x \in spans : x[1] <= j /\ j < x[2])[3])
             ELSE IF \E x \in spans : x[1] - 1 = j
               THEN MakeTag("B", (CHOOSE x \in spans : x[1] - 1 = j)[3])
             ELSE "O"
  IN  [i \in 1..n |-> label_at(i - 1)]

\* _get_gold_labels with predict_spans, for one sentence of n tokens:
\* sentence_labels starts as ["O"] * n and every span writes its tags.  A
\* span is <<first, last, value>> with the 1-based token indices idx, j is
\* the 0-based list index; of two writes to one index the later one stays
get_gold_labels(spans, n, tag_format) ==
  LET label_at(j) ==
        IF tag_format = "BIOES"
        THEN IF \E x \in spans : x[1] < x[2] /\ x[1] <= j /\ j < x[2] - 1
               THEN MakeTag("I", (CHOOSE x \in spans : x[1] < x[2] /\ x[1] <= j /\ j < x[2] - 1)[3])
             ELSE IF \E x \in spans : x[1] = x[2] /\ x[1] - 1 = j
               THEN MakeTag("S", (CHOOSE x \in spans : x[1] = x[2] /\ x[1] - 1 = j)[3])
             ELSE IF \E x \in spans : x[1] < x[2] /\ x[2] - 1 = j
               THEN MakeTag("E", (CHOOSE x \in spans : x[1] < x[2] /\ x[2] - 1 = j)[3])
             ELSE IF \E x \in spans : x[1] < x[2] /\ x[1] - 1 = j
               THEN MakeTag("B", (CHOOSE x \in spans : x[1] < x[2] /\ x[1] - 1 = j)[3])
             ELSE "O"
        ELSE IF \E x \in spans : x[1] <= j /\ j < x[2]
               THEN MakeTag("I", (CHOOSE x \in spans : x[1] <= j /\ j < x[2])[3])
             ELSE IF \E x \in spans : x[1] - 1 = j
               THEN MakeTag("B", (CHOOSE x \in spans : x[1] - 1 = j)[3])
             ELSE "O"
  IN  [i \in 1..n |-> label_at(i - 1)]

\* get_spans_from_bio, the test that a tag opens a new span: B- and S-
\* always do, I- does when the entity type changes (an I- after O included)
starts_new_span(previous_tag, bioes_tag) ==
  \/ TagPrefix(bioes_tag) \in {"B", "S"}
  \/ /\ bioes_tag # "O"
     /\ TagType(previous_tag) # TagType(bioes_tag)
     /\ TagPrefix(bioes_tag) = "I"

\* the value of a decoded span: the entity type of largest weight, a token
\* that opens the span weighing 11 and every other token 10; the first type
\* wins a tie
SpanValue(tags, first, last) ==
  LET types == {TagType(tags[i]) : i \in first..last}
      before == IF first = 1 THEN "O" ELSE tags[first - 1]
      weight(ty) == SumSeq([k \in 1..(last - first + 1) |->
                              IF TagType(tags[first + k - 1]) # ty THEN 0
                              ELSE IF k = 1 /\ starts_new_span(before, tags[first]) THEN 11
                              ELSE 10])
      firstAt(ty) == CHOOSE i \in first..last :
                       TagType(tags[i]) = ty /\ \A j \in first..(i - 1) : TagType(tags[j]) # ty
  IN  CHOOSE ty \in types :
        \A other \in types \ {ty} :
          weight(ty) > weight(other) \/ (weight(ty) = weight(other) /\ firstAt(ty) < firstAt(other))

\* get_spans_from_bio: the maximal ranges of non-O tags, cut where a tag
\* opens a new span
get_spans_from_bio(tags) ==
  LET n == Len(tags)
      prev(i) == IF i = 1 THEN "O" ELSE tags[i - 1]
      opens(i) == tags[i] # "O" /\ (prev(i) = "O" \/ starts_new_span(prev(i), tags[i]))
      closes(i) == tags[i] # "O" /\ (i = n \/ tags[i + 1] = "O" \/ starts_new_span(tags[i], tags[i + 1]))
  IN  {<<f, l, SpanValue(tags, f, l)>> : <<f, l>> \in
         {r \in (1..n) \X (1..n) :
            /\ r[1] <= r[2]
            /\ opens(r[1])
            /\ closes(r[2])
            /\ \A j \in r[1]..r[2] : tags[j] # "O"
            /\ \A j \in (r[1] + 1)..r[2] : ~ opens(j)}}

\* the tail of mask_category / relabel_category: decode the working tags and
\* set the label of every decoded span in the new column
write_new_spans(spans, tags) ==
  LET decoded == get_spans_from_bio(tags)
  IN  {x \in spans : ~ \E d \in decoded : d[1] = x[1] /\ d[2] = x[2]} \cup decoded

(***************************************************************************)
(* Category test and threshold test                                        *)
(***************************************************************************)
CategoryIds == {"1", "2", "3", "4"}

\* category_conditions with the row of category 4 written as a copy of row 3
category_conditions_copied_row ==
  [c \in CategoryIds |->
     CASE c = "1" -> <<TRUE, TRUE>>
       [] c = "2" -> <<FALSE, TRUE>>
       [] c = "3" -> <<TRUE, FALSE>>
       [] c = "4" -> <<TRUE, FALSE>>]

\* category id -> (pred == observed, observed == O)
category_conditions ==
  [c \in CategoryIds |->
     CASE c = "1" -> <<TRUE, TRUE>>
       [] c = "2" -> <<FALSE, TRUE>>
       [] c = "3" -> <<TRUE, FALSE>>
       [] c = "4" -> <<FALSE, FALSE>>]

\* the condition of the if in the token loops of mask_category and relabel_category
in_category(observed, predicted, category_id) ==
  /\ ~ EndsWith(observed, "MASK")
  /\ (observed = predicted) = category_conditions[category_id][1]
  /\ (observed = "O") = category_conditions[category_id][2]

\* passes_threshold with the inclusive comparisons <= and >=
passes_threshold_inclusive(value, threshold, direction) ==
  IF direction = "left" THEN value <= threshold ELSE value >= threshold

\* direction 'left' tests metric < threshold, anything else metric > threshold
passes_threshold(value, threshold, direction) ==
  IF direction = "left" THEN value < threshold ELSE value > threshold

(***************************************************************************)
(* mask_category and relabel_category on one sentence                      *)
(***************************************************************************)
\* mask_token that flips the tag: a working tag that is already S-MASK is
\* set back to the observed tag
mask_token_flipping(observed, predicted, value, working, threshold, direction, category_id) ==
  IF in_category(observed, predicted, category_id)
     /\ passes_threshold(value, threshold, direction)
  THEN IF working = "S-MASK" THEN observed ELSE "S-MASK"
  ELSE working

\* the new working tag of one token in mask_category
mask_token(observed, predicted, value, working, threshold, direction, category_id) ==
  IF in_category(observed, predicted, category_id)
     /\ passes_threshold(value, threshold, direction)
  THEN "S-MASK"
  ELSE working

mask_sentence(obs, pred, met, working, threshold, direction, category_id) ==
  LET triggered == {i \in DOMAIN obs :
                      in_category(obs[i], pred[i], category_id)
                      /\ passes_threshold(met[i], threshold, direction)}
  IN  [tags |-> [i \in DOMAIN obs |->
                   mask_token(obs[i], pred[i], met[i], working[i],
                              threshold, direction, category_id)],
       tokens_changed |-> Cardinality(triggered),
       tokens_changed_additionally |-> 0,
       by_threshold |-> triggered,
       by_propagation |-> {}]

\* relabel_token that writes the observed tag (tag_column_bio) where the
\* code writes the predicted one
relabel_token_writing_observed(st, i, obs, pred, met, threshold, direction, category_id) ==
  IF in_category(obs[i], pred[i], category_id)
  THEN IF passes_threshold(met[i], threshold, direction)
       THEN [st EXCEPT !.tags[i] = obs[i],
                       !.tokens_changed = @ + 1,
                       !.by_threshold = @ \cup {i},
                       !.prev = pred[i],
                       !.previous_changed = TRUE]
       ELSE st
  ELSE IF /\ st.previous_changed
          /\ st.prev # "O"
          /\ EndsWith(obs[i], TagType(st.prev))
          /\ EndsWith(pred[i], TagType(st.prev))
       THEN [st EXCEPT !.tags[i] = pred[i],
                       !.tokens_changed_additionally = @ + 1,
                       !.by_propagation = @ \cup {i}]
       ELSE [st EXCEPT !.previous_changed = FALSE]

\* one iteration of "for token in sent" of relabel_category; st carries the
\* working tags, prev, previous_changed, the two counters and, for each
\* counter, the positions it counted
relabel_token(st, i, obs, pred, met, threshold, direction, category_id) ==
  IF in_category(obs[i], pred[i], category_id)
  THEN IF passes_threshold(met[i], threshold, direction)
       THEN [st EXCEPT !.tags[i] = pred[i],
                       !.tokens_changed = @ + 1,
                       !.by_threshold = @ \cup {i},
                       !.prev = pred[i],
                       !.previous_changed = TRUE]
       ELSE st
  ELSE IF /\ st.previous_changed
          /\ st.prev # "O"
          /\ EndsWith(obs[i], TagType(st.prev))
          /\ EndsWith(pred[i], TagType(st.prev))
       THEN [st EXCEPT !.tags[i] = pred[i],
                       !.tokens_changed_additionally = @ + 1,
                       !.by_propagation = @ \cup {i}]
       ELSE [st EXCEPT !.previous_changed = FALSE]

RECURSIVE relabel_scan(_, _, _, _, _, _, _, _)
relabel_scan(st, i, obs, pred, met, threshold, direction, category_id) ==
  IF i > Len(obs) THEN st
  ELSE relabel_scan(relabel_token(st, i, obs, pred, met, threshold, direction, category_id),
                    i + 1, obs, pred, met, threshold, direction, category_id)

relabel_sentence(obs, pred, met, working, threshold, direction, category_id) ==
  LET st == relabel_scan([tags |-> working, tokens_changed |-> 0,
                          tokens_changed_additionally |-> 0,
                          by_threshold |-> {}, by_propagation |-> {},
                          prev |-> "O", previous_changed |-> FALSE],
                         1, obs, pred, met, threshold, direction, category_id)
  IN  [tags |-> st.tags,
       tokens_changed |-> st.tokens_changed,
       tokens_changed_additionally |-> st.tokens_changed_additionally,
       by_threshold |-> st.by_threshold,
       by_propagation |-> st.by_propagation]

\* either function on the whole dataset; modification is 'mask' or 'relabel'
modify_sentence(modification, obs, pred, met, working, threshold, direction, category_id) ==
  IF modification = "mask"
  THEN mask_sentence(obs, pred, met, working, threshold, direction, category_id)
  ELSE relabel_sentence(obs, pred, met, working, threshold, direction, category_id)

\* ApplyModification that sets the tags on tag_column_bio, the observed
\* column, as well as on the working column
ApplyModification_on_observed(modification, threshold, direction, category_id) ==
  LET res == [s \in DOMAIN ner_bio |->
                modify_sentence(modification, ner_bio[s], predicted_bio[s], metric[s],
                                ner_new_bio[s], threshold, direction, category_id)]
  IN  /\ ner_new_bio' = [s \in DOMAIN ner_bio |-> res[s].tags]
      /\ ner_bio' = [s \in DOMAIN ner_bio |-> res[s].tags]
      /\ ner_new' = [s \in DOMAIN ner_bio |-> write_new_spans(ner_new[s], res[s].tags)]
      /\ call' = [fn |-> modification,
                  threshold |-> threshold,
                  direction |-> direction,
                  category_id |-> category_id,
                  before |-> ner_new_bio,
                  tokens_changed |->
                    SumSeq([s \in DOMAIN ner_bio |-> res[s].tokens_changed]),
                  tokens_changed_additionally |->
                    SumSeq([s \in DOMAIN ner_bio |-> res[s].tokens_changed_additionally]),
                  by_threshold |-> [s \in DOMAIN ner_bio |-> res[s].by_threshold],
                  by_propagation |-> [s \in DOMAIN ner_bio |-> res[s].by_propagation],
                  count |-> call.count + 1]
      /\ UNCHANGED <<ner, predicted_bio, metric>>

ApplyModification(modification, threshold, direction, category_id) ==
  LET res == [s \in DOMAIN ner_bio |->
                modify_sentence(modification, ner_bio[s], predicted_bio[s], metric[s],
                                ner_new_bio[s], threshold, direction, category_id)]
  IN  /\ ner_new_bio' = [s \in DOMAIN ner_bio |-> res[s].tags]
      /\ ner_new' = [s \in DOMAIN ner_bio |-> write_new_spans(ner_new[s], res[s].tags)]
      /\ call' = [fn |-> modification,
                  threshold |-> threshold,
                  direction |-> direction,
                  category_id |-> category_id,
                  before |-> ner_new_bio,
                  tokens_changed |->
                    SumSeq([s \in DOMAIN ner_bio |-> res[s].tokens_changed]),
                  tokens_changed_additionally |->
                    SumSeq([s \in DOMAIN ner_bio |-> res[s].tokens_changed_additionally]),
                  by_threshold |-> [s \in DOMAIN ner_bio |-> res[s].by_threshold],
                  by_propagation |-> [s \in DOMAIN ner_bio |-> res[s].by_propagation],
                  count |-> call.count + 1]
      /\ UNCHANGED <<ner_bio, ner, predicted_bio, metric>>

NoCall == [fn |-> "none", count |-> 0]

(***************************************************************************)
(* Direct calls of mask_category / relabel_category on a loaded dataset    *)
(***************************************************************************)
MaxCalls == 2            \* calls of mask_category / relabel_category in a row

\* the sentence of the end-to-end scenario
Text == <<"Paris", "is", "nice">>

CallObservedTags == {"O", "B-LOC", "S-MASK"}
CallPredictedTags == {"O", "B-LOC", "S-PER"}
CallMetricValues == {2, 9}
CallDirections == {"left", "right"}

CallMask ==
  /\ run_pc = "direct"
  /\ call.count < MaxCalls
  /\ ApplyModification("mask", category_configs[1].threshold,
                       category_configs[1].direction, category_configs[1].id)
  /\ UNCHANGED hvars
  /\ UNCHANGED rvars
  /\ UNCHANGED ovars

CallRelabel ==
  /\ run_pc = "direct"
  /\ call.count < MaxCalls
  /\ ApplyModification("relabel", category_configs[1].threshold,
                       category_configs[1].direction, category_configs[1].id)
  /\ UNCHANGED hvars
  /\ UNCHANGED rvars
  /\ UNCHANGED ovars

(***************************************************************************)
(* main: the schedule                                                      *)
(***************************************************************************)
\* modify_category<id> : false
Disabled == [modification |-> "false"]

\* a modify_category<id> entry; main adds the id
StepConfigs(epochs, modifications, directions) ==
  [epoch_change : epochs, metric : {"confidence"}, threshold : {5},
   direction : directions, modification : modifications, id : {""}]

RECURSIVE ParseInt(_)
\* int(x) of a decimal string, given as its sequence of digits
ParseInt(digits) ==
  IF digits = <<>> THEN 0
  ELSE 10 * ParseInt(SubSeq(digits, 1, Len(digits) - 1)) + digits[Len(digits)]

\* the sort key without int(): epoch_change compared as a string, so "10"
\* sorts before "9"; the rank of a string of one or two digits in that order
epoch_key_as_string(category_config) ==
  LET digits == category_config.epoch_change
  IN  11 * digits[1] + (IF Len(digits) > 1 THEN digits[2] + 1 ELSE 0)

\* the sort key of main: lambda x: int(x['epoch_change'])
epoch_key(category_config) == ParseInt(category_config.epoch_change)

RECURSIVE insert_sorted(_, _)
\* sorted() is stable: an element goes after every element whose key is not larger
insert_sorted(sorted_list, x) ==
  IF sorted_list = <<>> THEN <<x>>
  ELSE IF epoch_key(Head(sorted_list)) <= epoch_key(x)
       THEN <<Head(sorted_list)>> \o insert_sorted(Tail(sorted_list), x)
       ELSE <<x>> \o sorted_list

RECURSIVE sorted_by_epoch(_)
sorted_by_epoch(list) ==
  IF list = <<>> THEN <<>>
  ELSE insert_sorted(sorted_by_epoch(SubSeq(list, 1, Len(list) - 1)), list[Len(list)])

\* the loop "for cat_id in category_conditions" in declaration order
CategoryOrder == <<"1", "2", "3", "4">>

RECURSIVE collect_category_configs(_, _)
collect_category_configs(cfg, ids) ==
  IF ids = <<>> THEN <<>>
  ELSE IF cfg[Head(ids)] = Disabled THEN collect_category_configs(cfg, Tail(ids))
       ELSE <<[cfg[Head(ids)] EXCEPT !.id = Head(ids)]>> \o collect_category_configs(cfg, Tail(ids))

Main ==
  /\ run_pc = "main"
  /\ category_configs' = sorted_by_epoch(collect_category_configs(config, CategoryOrder))
  /\ run_pc' = IF collect_category_configs(config, CategoryOrder) = <<>> THEN "done" ELSE "start"
  /\ UNCHANGED <<config, step_idx, applied, epoch_logs>>
  /\ UNCHANGED dvars
  /\ UNCHANGED hvars
  /\ UNCHANGED ovars

(***************************************************************************)
(* run_experiment                                                          *)
(***************************************************************************)
\* the two add_bioes_ner_tags calls before the loop over the schedule
RunExperimentStart ==
  /\ run_pc = "start"
  /\ ner_bio' = [s \in DOMAIN ner |-> add_bioes_ner_tags(ner[s], Len(ner_bio[s]))]
  /\ ner_new_bio' = [s \in DOMAIN ner |-> add_bioes_ner_tags(ner[s], Len(ner_bio[s]))]
  /\ run_pc' = "steps"
  /\ UNCHANGED <<ner, predicted_bio, metric, ner_new, call>>
  /\ UNCHANGED <<config, category_configs, step_idx, applied, epoch_logs>>
  /\ UNCHANGED hvars
  /\ UNCHANGED ovars

RunPredictedTags == {"O", "S-LOC"}
RunMetricValues == {2, 9}

\* the rows an epoch log can hold for the dataset: per token the predicted
\* tag, the noisy tag (the BIOES encoding of the observed spans the baseline
\* trained on) and the metric value
EpochLogs ==
  {[s \in DOMAIN ner |-> [predicted |-> l[s].predicted,
                          noisy |-> add_bioes_ner_tags(ner[s], Len(ner_bio[s])),
                          value |-> l[s].value]] :
     l \in [DOMAIN ner -> UNION {[predicted : [1..n -> RunPredictedTags],
                                  value : [1..n -> RunMetricValues]] :
                                   n \in {Len(ner_bio[s]) : s \in DOMAIN ner}}]}

\* the clean (ground-truth) spans of the corpus, column ner_clean
ner_clean == <<{<<1, 1, "LOC">>}>>

\* calculate_f1_between_columns, score[('micro avg', 'f1-score')]: the spans
\* of both columns are aligned by sentence and boundaries, a span missing in
\* a column counts as O there, and the micro average over the labels other
\* than O is 2 * TP / (spans of column1 + spans of column2); the score is
\* the pair <<numerator, denominator>>.  run_experiment calls it with the
\* column ner_clean, which holds a span in every run modelled here; the
\* call on two columns without spans is EvaluateColumns below
calculate_f1_between_columns(column1, column2) ==
  LET keys(col) == UNION {{<<sid, x[1], x[2]>> : x \in col[sid]} : sid \in DOMAIN col}
      value(col, k) == (CHOOSE x \in col[k[1]] : x[1] = k[2] /\ x[2] = k[3])[3]
      tp == Cardinality({k \in keys(column1) \cap keys(column2) :
                           value(column1, k) = value(column2, k)})
      support == Cardinality(keys(column1)) + Cardinality(keys(column2))
  IN  <<2 * tp, support>>

(***************************************************************************)
(* The evaluation numbers of calculate_f1_between_columns and of           *)
(* EarlyExitSequenceTagger.evaluate.  A number is a pair                   *)
(* <<numerator, denominator>>.                                             *)
(***************************************************************************)
\* the keys "<sentence_id>: <span>" under which the labels of a column are filed
span_keys(col) == UNION {{<<sid, x[1], x[2]>> : x \in col[sid]} : sid \in DOMAIN col}

\* the value of a column at a key, "O" where the column has no label
span_value(col, k) ==
  IF k \in span_keys(col)
  THEN (CHOOSE x \in col[k[1]] : x[1] = k[2] /\ x[2] = k[3])[3]
  ELSE "O"

\* target_names: the labels other than O that occur in either column
target_names(true_col, pred_col) ==
  {x[3] : x \in UNION {true_col[sid] : sid \in DOMAIN true_col}
                 \cup UNION {pred_col[sid] : sid \in DOMAIN pred_col}}

\* a quotient under zero_division=0
Quotient(a, b) == IF b = 0 THEN <<0, 1>> ELSE <<a, b>>

\* what sklearn's classification_report and accuracy_score give for the
\* span-aligned lists: micro averages over the labels other than O
report_scores(true_col, pred_col) ==
  LET all_spans == span_keys(true_col) \cup span_keys(pred_col)
      tp == Cardinality({k \in span_keys(true_col) \cap span_keys(pred_col) :
                           span_value(true_col, k) = span_value(pred_col, k)})
  IN  [precision |-> Quotient(tp, Cardinality(span_keys(pred_col))),
       recall |-> Quotient(tp, Cardinality(span_keys(true_col))),
       f1_score |-> Quotient(2 * tp, Cardinality(span_keys(true_col))
                                     + Cardinality(span_keys(pred_col))),
       accuracy |-> Quotient(tp, Cardinality(all_spans))]

\* "accuracy_score = precision_score = recall_score = micro_f_score = 0.0"
ZeroScores ==
  [precision |-> <<0, 1>>, recall |-> <<0, 1>>, f1_score |-> <<0, 1>>, accuracy |-> <<0, 1>>]

NoScores == [k \in {} |-> <<0, 1>>]

\* the numbers of EarlyExitSequenceTagger.evaluate: the report is made when
\* len(all_true_values) + len(all_predicted_values) > 1, otherwise every
\* number defaults to 0
evaluate(true_col, pred_col) ==
  IF Cardinality(span_keys(true_col)) + Cardinality(span_keys(pred_col)) > 1
  THEN [report_invoked |-> TRUE, raised |-> FALSE,
        scores |-> report_scores(true_col, pred_col)]
  ELSE [report_invoked |-> FALSE, raised |-> FALSE, scores |-> ZeroScores]

\* the numbers of calculate_f1_between_columns: the report is always made;
\* with no target name sklearn's text report takes the maximum over an empty
\* list of name lengths and raises ValueError
f1_between_columns_evaluation(column1, column2) ==
  IF target_names(column1, column2) = {}
  THEN [report_invoked |-> TRUE, raised |-> TRUE, scores |-> NoScores]
  ELSE [report_invoked |-> TRUE, raised |-> FALSE, scores |-> report_scores(column1, column2)]

\* calculate_f1_between_columns on the columns ner and ner_new
EvaluateColumns ==
  /\ run_pc = "eval"
  /\ LET res == f1_between_columns_evaluation(ner, ner_new)
     IN  /\ call' = [fn |-> "calculate_f1_between_columns", count |-> call.count + 1,
                     report_invoked |-> res.report_invoked, scores |-> res.scores]
         /\ error' = IF res.raised THEN [raised |-> TRUE, exception |-> "ValueError"]
                     ELSE error
         /\ run_pc' = IF res.raised THEN "raised" ELSE "evaluated"
  /\ UNCHANGED <<ner_bio, ner, predicted_bio, metric, ner_new_bio, ner_new>>
  /\ UNCHANGED <<config, category_configs, step_idx, applied, epoch_logs>>
  /\ UNCHANGED <<log_files, noise_f1s, step_returns, written>>
  /\ UNCHANGED hvars

\* evaluate with ner as the gold labels and ner_new as the predicted spans
EvaluateEarlyExit ==
  /\ run_pc = "eval"
  /\ LET res == evaluate(ner, ner_new)
     IN  /\ call' = [fn |-> "evaluate", count |-> call.count + 1,
                     report_invoked |-> res.report_invoked, scores |-> res.scores]
         /\ error' = IF res.raised THEN [raised |-> TRUE, exception |-> "ValueError"]
                     ELSE error
         /\ run_pc' = IF res.raised THEN "raised" ELSE "evaluated"
  /\ UNCHANGED <<ner_bio, ner, predicted_bio, metric, ner_new_bio, ner_new>>
  /\ UNCHANGED <<config, category_configs, step_idx, applied, epoch_logs>>
  /\ UNCHANGED <<log_files, noise_f1s, step_returns, written>>
  /\ UNCHANGED hvars

\* RunStep without the os.path.exists test: the step is applied whether or
\* not its epoch log exists
RunStep_without_exists_test(log) ==
  /\ run_pc = "steps"
  /\ step_idx < Len(category_configs)
  /\ LET category_config == category_configs[step_idx + 1]
         current_epoch == ParseInt(category_config.epoch_change)
     IN  /\ \A s \in DOMAIN ner : Len(log[s].predicted) = Len(ner_bio[s])
         /\ current_epoch \in DOMAIN epoch_logs => log = epoch_logs[current_epoch]
         /\ epoch_logs' = [e \in DOMAIN epoch_logs \cup {current_epoch} |->
                             IF e = current_epoch THEN log ELSE epoch_logs[e]]
         /\ LET res == [s \in DOMAIN ner |->
                          modify_sentence(category_config.modification,
                                          log[s].noisy, log[s].predicted, log[s].value,
                                          ner_new_bio[s], category_config.threshold,
                                          category_config.direction, category_config.id)]
            IN  /\ ner_bio' = [s \in DOMAIN ner |-> log[s].noisy]
                /\ predicted_bio' = [s \in DOMAIN ner |-> log[s].predicted]
                /\ metric' = [s \in DOMAIN ner |-> log[s].value]
                /\ ner_new_bio' = [s \in DOMAIN ner |-> res[s].tags]
                /\ ner_new' = [s \in DOMAIN ner |-> write_new_spans(ner_new[s], res[s].tags)]
                /\ call' = [fn |-> category_config.modification,
                            threshold |-> category_config.threshold,
                            direction |-> category_config.direction,
                            category_id |-> category_config.id,
                            before |-> ner_new_bio,
                            tokens_changed |->
                              SumSeq([s \in DOMAIN ner |-> res[s].tokens_changed]),
                            tokens_changed_additionally |->
                              SumSeq([s \in DOMAIN ner |-> res[s].tokens_changed_additionally]),
                            by_threshold |-> [s \in DOMAIN ner |-> res[s].by_threshold],
                            by_propagation |-> [s \in DOMAIN ner |-> res[s].by_propagation],
                            count |-> call.count + 1]
                /\ noise_f1s' =
                     Append(noise_f1s,
                            calculate_f1_between_columns(
                              [s \in DOMAIN ner |-> write_new_spans(ner_new[s], res[s].tags)],
                              ner_clean))
                /\ step_returns' =
                     Append(step_returns,
                            <<SumSeq([s \in DOMAIN ner |-> res[s].tokens_changed]),
                              SumSeq([s \in DOMAIN ner |-> res[s].tokens_changed_additionally])>>)
         /\ applied' = Append(applied, category_config)
  /\ step_idx' = step_idx + 1
  /\ UNCHANGED <<ner, config, category_configs, run_pc>>
  /\ UNCHANGED <<log_files, written, error>>
  /\ UNCHANGED hvars

\* one iteration of the loop over category_configs: the epoch log exists,
\* it is loaded (update_dataset_with_epoch_log_info), the step masks or
\* relabels, and the F1 between ner_new and ner_clean is appended to noise_f1s
RunStep(log) ==
  /\ run_pc = "steps"
  /\ step_idx < Len(category_configs)
  /\ category_configs[step_idx + 1].epoch_change \in log_files
  /\ LET category_config == category_configs[step_idx + 1]
         current_epoch == ParseInt(category_config.epoch_change)
     IN  /\ \A s \in DOMAIN ner : Len(log[s].predicted) = Len(ner_bio[s])
         /\ current_epoch \in DOMAIN epoch_logs => log = epoch_logs[current_epoch]
         /\ epoch_logs' = [e \in DOMAIN epoch_logs \cup {current_epoch} |->
                             IF e = current_epoch THEN log ELSE epoch_logs[e]]
         /\ LET res == [s \in DOMAIN ner |->
                          modify_sentence(category_config.modification,
                                          log[s].noisy, log[s].predicted, log[s].value,
                                          ner_new_bio[s], category_config.threshold,
                                          category_config.direction, category_config.id)]
            IN  /\ ner_bio' = [s \in DOMAIN ner |-> log[s].noisy]
                /\ predicted_bio' = [s \in DOMAIN ner |-> log[s].predicted]
                /\ metric' = [s \in DOMAIN ner |-> log[s].value]
                /\ ner_new_bio' = [s \in DOMAIN ner |-> res[s].tags]
                /\ ner_new' = [s \in DOMAIN ner |-> write_new_spans(ner_new[s], res[s].tags)]
                /\ call' = [fn |-> category_config.modification,
                            threshold |-> category_config.threshold,
                            direction |-> category_config.direction,
                            category_id |-> category_config.id,
                            before |-> ner_new_bio,
                            tokens_changed |->
                              SumSeq([s \in DOMAIN ner |-> res[s].tokens_changed]),
                            tokens_changed_additionally |->
                              SumSeq([s \in DOMAIN ner |-> res[s].tokens_changed_additionally]),
                            by_threshold |-> [s \in DOMAIN ner |-> res[s].by_threshold],
                            by_propagation |-> [s \in DOMAIN ner |-> res[s].by_propagation],
                            count |-> call.count + 1]
                /\ noise_f1s' =
                     Append(noise_f1s,
                            calculate_f1_between_columns(
                              [s \in DOMAIN ner |-> write_new_spans(ner_new[s], res[s].tags)],
                              ner_clean))
                /\ step_returns' =
                     Append(step_returns,
                            <<SumSeq([s \in DOMAIN ner |-> res[s].tokens_changed]),
                              SumSeq([s \in DOMAIN ner |-> res[s].tokens_changed_additionally])>>)
         /\ applied' = Append(applied, category_config)
  /\ step_idx' = step_idx + 1
  /\ UNCHANGED <<ner, config, category_configs, run_pc>>
  /\ UNCHANGED <<log_files, written, error>>
  /\ UNCHANGED hvars

\* the iteration whose epoch log does not exist: the exception names the
\* file and ends run_experiment
RunStepRaises ==
  /\ run_pc = "steps"
  /\ step_idx < Len(category_configs)
  /\ category_configs[step_idx + 1].epoch_change \notin log_files
  /\ error' = [raised |-> TRUE, file |-> category_configs[step_idx + 1].epoch_change]
  /\ run_pc' = "raised"
  /\ UNCHANGED <<config, category_configs, step_idx, applied, epoch_logs>>
  /\ UNCHANGED <<log_files, noise_f1s, step_returns, written>>
  /\ UNCHANGED dvars
  /\ UNCHANGED hvars

\* output_bio_dataset: the tag written for a token, S- as B- and E- as I-
iob1_tag(val) ==
  IF TagPrefix(val) = "S" THEN MakeTag("B", TagType(val))
  ELSE IF TagPrefix(val) = "E" THEN MakeTag("I", TagType(val))
  ELSE val

output_bio_dataset(tags) ==
  [s \in DOMAIN tags |-> [i \in DOMAIN tags[s] |-> iob1_tag(tags[s][i])]]

\* the lines of noise_f1.txt: for every score of noise_f1s, last first, the
\* score followed by the variables tokens_changed and
\* tokens_changed_additionally as the loop left them
noise_report(scores, tokens_changed, tokens_changed_additionally) ==
  [i \in 1..Len(scores) |->
     [noise_f1 |-> scores[Len(scores) - i + 1],
      tokens_changed |-> tokens_changed,
      tokens_changed_additionally |-> tokens_changed_additionally]]

RECURSIVE copy_labels(_, _)
\* copy_new_tag_to_original on one sentence: every span of the new column
\* gets its value as label of the original column
copy_labels(original, new_spans) ==
  IF new_spans = {} THEN original
  ELSE LET x == CHOOSE y \in new_spans : TRUE
       IN  copy_labels(SpanSetLabel(original, x[1], x[2], x[3]), new_spans \ {x})

\* after the loop: noise_f1.txt, noise_crowd_relabeled.train, then
\* copy_new_tag_to_original
RunExperimentFinish ==
  /\ run_pc = "steps"
  /\ step_idx = Len(category_configs)
  /\ written' =
       [f \in DOMAIN written \cup {"noise_f1.txt", "noise_crowd_relabeled.train"} |->
          IF f = "noise_f1.txt"
            THEN noise_report(noise_f1s, call.tokens_changed, call.tokens_changed_additionally)
          ELSE IF f = "noise_crowd_relabeled.train"
            THEN output_bio_dataset(ner_new_bio)
          ELSE written[f]]
  /\ ner' = [s \in DOMAIN ner |-> copy_labels(ner[s], ner_new[s])]
  /\ run_pc' = "done"
  /\ UNCHANGED <<ner_bio, predicted_bio, metric, ner_new_bio, ner_new, call>>
  /\ UNCHANGED <<config, category_configs, step_idx, applied, epoch_logs>>
  /\ UNCHANGED <<log_files, noise_f1s, step_returns, error>>
  /\ UNCHANGED hvars

HistNext ==
  \/ \E batch \in Batches : \E scores \in [Range(Flatten(batch)) -> Dists] :
       CalculateMetrics(batch, scores)
  \/ \E batch \in Batches : CalculateMetricsRaises(batch)
  \/ LogMetrics

(***************************************************************************)
(* Specifications                                                          *)
(***************************************************************************)
HistOff ==
  /\ metric_history = [t \in HTokens |-> EmptyHistory]
  /\ hist_pc = "off"
  /\ pending = NoPending
  /\ logged = [t \in HTokens |-> NoRow]
  /\ visits = [t \in HTokens |-> 0]
  /\ fed = [t \in HTokens |-> <<>>]
  /\ probs = [t \in HTokens |-> <<>>]
  /\ batches_done = 0

DataOff ==
  /\ ner_bio = <<>>
  /\ ner = <<>>
  /\ predicted_bio = <<>>
  /\ metric = <<>>
  /\ ner_new_bio = <<>>
  /\ ner_new = <<>>
  /\ call = NoCall

NoConfig == [c \in CategoryIds |-> Disabled]
NoLogs == [e \in {} |-> 0]
NoFiles == [f \in {} |-> <<>>]
NoError == [raised |-> FALSE]

\* the epoch logs a baseline run leaves behind
AllLogFiles == {<<1>>, <<2>>, <<9>>, <<1, 0>>}

OutOff ==
  /\ log_files = {}
  /\ noise_f1s = <<>>
  /\ step_returns = <<>>
  /\ written = NoFiles
  /\ error = NoError

RunOff ==
  /\ config = NoConfig
  /\ category_configs = <<>>
  /\ run_pc = "off"
  /\ step_idx = 0
  /\ applied = <<>>
  /\ epoch_logs = NoLogs

\* ---- the metrics engine over any sequence of batches ----
HistSpecInit == HistInit /\ DataOff /\ RunOff /\ OutOff
SpecHist == HistSpecInit /\ [][HistNext]_vars

\* ---- calculate_mild_f / calculate_mild_m on any flag sequence ----
MaxFlags == 6            \* length of the longest flag sequence
FlagSeqs == UNION {[1..n -> {0, 1}] : n \in 0..MaxFlags}

MildInit ==
  /\ metric_history = [t \in HTokens |-> EmptyHistory]
  /\ hist_pc = "mild"
  /\ pending = NoPending
  /\ logged = [t \in HTokens |-> NoRow]
  /\ visits = [t \in HTokens |-> 0]
  /\ \E flags \in FlagSeqs : fed = [t \in HTokens |-> IF t = <<1, 1>> THEN flags ELSE <<>>]
  /\ probs = [t \in HTokens |-> <<>>]
  /\ batches_done = 0
  /\ DataOff
  /\ RunOff
  /\ OutOff

\* the three MILD lines of _calculate_metrics on the flags of every token
MildCall ==
  /\ hist_pc = "mild"
  /\ logged' = [t \in HTokens |->
                  [mild_m |-> calculate_mild_m(fed[t]),
                   mild_f |-> calculate_mild_f(fed[t]),
                   mild |-> calculate_mild_m(fed[t]) - calculate_mild_f(fed[t])]]
  /\ hist_pc' = "mild_done"
  /\ UNCHANGED <<metric_history, pending, visits, fed, probs, batches_done>>
  /\ UNCHANGED dvars
  /\ UNCHANGED rvars
  /\ UNCHANGED ovars

MildNext == MildCall
SpecMild == MildInit /\ [][MildNext]_vars


\* ---- _calculate_layer_metrics on any per-layer scores of one token ----
MaxLayers == 4           \* layers of the early-exit tagger
LayerScores == UNION {[1..n -> Dists] : n \in 1..MaxLayers}

LayersInit ==
  /\ metric_history = [t \in HTokens |-> EmptyHistory]
  /\ hist_pc = "layers"
  /\ \E scores \in LayerScores : \E gold_label \in LabelIdx :
       pending = [batch |-> <<>>, scores |-> scores, gold_label |-> gold_label,
                  n_layers |-> Len(scores)]
  /\ logged = [t \in HTokens |-> NoRow]
  /\ visits = [t \in HTokens |-> 0]
  /\ fed = [t \in HTokens |-> <<>>]
  /\ probs = [t \in HTokens |-> <<>>]
  /\ batches_done = 0
  /\ DataOff
  /\ RunOff
  /\ OutOff

\* the call of _calculate_layer_metrics inside the early-exit
\* _calculate_metrics, for the token <<1, 1>>
LayerCall ==
  /\ hist_pc = "layers"
  /\ logged' = [t \in HTokens |->
                  IF t = <<1, 1>>
                  THEN calculate_layer_metrics(pending.scores, pending.gold_label,
                                               pending.n_layers)
                  ELSE NoRow]
  /\ hist_pc' = "layers_done"
  /\ UNCHANGED <<metric_history, pending, visits, fed, probs, batches_done>>
  /\ UNCHANGED dvars
  /\ UNCHANGED rvars
  /\ UNCHANGED ovars

LayersNext == LayerCall
SpecLayers == LayersInit /\ [][LayersNext]_vars

\* ---- mask_category / relabel_category called on a loaded dataset ----
CallsInit ==
  /\ HistOff
  /\ \E obs \in [1..Len(Text) -> CallObservedTags],
        pred \in [1..Len(Text) -> CallPredictedTags],
        met \in [1..Len(Text) -> CallMetricValues] :
       /\ ner_bio = <<obs>>
       /\ ner = <<get_spans_from_bio(obs)>>
       /\ predicted_bio = <<pred>>
       /\ metric = <<met>>
       /\ ner_new_bio = <<obs>>
       /\ ner_new = <<{}>>
  /\ call = NoCall
  /\ config = NoConfig
  /\ \E step \in StepConfigs({<<1>>}, {"mask"}, CallDirections), id \in CategoryIds :
       category_configs = <<[step EXCEPT !.id = id]>>
  /\ run_pc = "direct"
  /\ step_idx = 0
  /\ applied = <<>>
  /\ epoch_logs = NoLogs
  /\ OutOff

CallsNext == CallMask \/ CallRelabel
SpecCalls == CallsInit /\ [][CallsNext]_vars

\* ---- mask_category / relabel_category on metric values below, at and
\* ---- above the threshold
ThresholdText == <<"Paris", "France">>
ThresholdObservedTags == {"O", "B-LOC"}
ThresholdMetricValues == {2, 5, 9}

ThresholdInit ==
  /\ HistOff
  /\ \E obs \in [1..Len(ThresholdText) -> ThresholdObservedTags],
        pred \in [1..Len(ThresholdText) -> CallPredictedTags],
        met \in [1..Len(ThresholdText) -> ThresholdMetricValues] :
       /\ ner_bio = <<obs>>
       /\ ner = <<get_spans_from_bio(obs)>>
       /\ predicted_bio = <<pred>>
       /\ metric = <<met>>
       /\ ner_new_bio = <<obs>>
       /\ ner_new = <<{}>>
  /\ call = NoCall
  /\ config = NoConfig
  /\ \E step \in StepConfigs({<<1>>}, {"mask"}, CallDirections), id \in CategoryIds :
       category_configs = <<[step EXCEPT !.id = id]>>
  /\ run_pc = "direct"
  /\ step_idx = 0
  /\ applied = <<>>
  /\ epoch_logs = NoLogs
  /\ OutOff

SpecThreshold == ThresholdInit /\ [][CallsNext]_vars

\* ---- relabel_category on sentences whose tokens share an entity type ----
PropText == <<"New", "York", "City">>
PropObservedTags == {"O", "B-LOC"}
PropPredictedTags == {"O", "B-LOC", "I-LOC"}

PropInit ==
  /\ HistOff
  /\ \E obs \in [1..Len(PropText) -> PropObservedTags],
        pred \in [1..Len(PropText) -> PropPredictedTags],
        met \in [1..Len(PropText) -> CallMetricValues] :
       /\ ner_bio = <<obs>>
       /\ ner = <<get_spans_from_bio(obs)>>
       /\ predicted_bio = <<pred>>
       /\ metric = <<met>>
       /\ ner_new_bio = <<obs>>
       /\ ner_new = <<{}>>
  /\ call = NoCall
  /\ config = NoConfig
  /\ \E step \in StepConfigs({<<1>>}, {"relabel"}, CallDirections), id \in CategoryIds :
       category_configs = <<[step EXCEPT !.id = id]>>
  /\ run_pc = "direct"
  /\ step_idx = 0
  /\ applied = <<>>
  /\ epoch_logs = NoLogs
  /\ OutOff

PropNext == CallRelabel
SpecProp == PropInit /\ [][PropNext]_vars

\* ---- main and run_experiment ----
MaxSteps == 2            \* categories enabled in one configuration

\* main is about to run on a configuration of configs, a corpus of corpora
\* and a baseline directory holding the epoch logs of one set of files
RunInitFiles(configs, text, corpora, files) ==
  /\ HistOff
  /\ config \in configs
  /\ \E spans \in corpora : ner = <<spans>>
  /\ ner_bio = <<[i \in 1..Len(text) |-> "O"]>>
  /\ predicted_bio = <<[i \in 1..Len(text) |-> "O"]>>
  /\ metric = <<[i \in 1..Len(text) |-> 0]>>
  /\ ner_new_bio = <<[i \in 1..Len(text) |-> "O"]>>
  /\ ner_new = <<{}>>
  /\ call = NoCall
  /\ category_configs = <<>>
  /\ run_pc = "main"
  /\ step_idx = 0
  /\ applied = <<>>
  /\ epoch_logs = NoLogs
  /\ log_files \in files
  /\ noise_f1s = <<>>
  /\ step_returns = <<>>
  /\ written = NoFiles
  /\ error = NoError

\* every epoch log exists
RunInit(configs, text, corpora) == RunInitFiles(configs, text, corpora, {AllLogFiles})

RunNext ==
  \/ Main
  \/ RunExperimentStart
  \/ \E log \in EpochLogs : RunStep(log)
  \/ RunExperimentFinish

Enabled(cfg) == {c \in CategoryIds : cfg[c] # Disabled}

RunText == <<"Paris", "is">>
RunCorpora == {{}, {<<1, 1, "LOC">>}, {<<1, 2, "LOC">>}}

\* schedules of at most MaxSteps steps with well-formed directions
RemedConfigs ==
  {cfg \in [CategoryIds -> {Disabled} \cup
              StepConfigs({<<1>>, <<2>>}, {"mask", "relabel"}, {"left"})] :
     Cardinality(Enabled(cfg)) <= MaxSteps}
SpecRemed == RunInit(RemedConfigs, RunText, RunCorpora) /\ [][RunNext]_vars

\* schedules whose steps carry a direction that is neither left nor right
MalformedConfigs ==
  {cfg \in [CategoryIds -> {Disabled} \cup
              StepConfigs({<<1>>, <<2>>}, {"mask", "relabel"}, {"up"})] :
     Cardinality(Enabled(cfg)) <= MaxSteps}
SpecMalformed == RunInit(MalformedConfigs, RunText, RunCorpora) /\ [][RunNext]_vars

\* every combination of enabled categories and epochs, epoch_change given
\* as decimal strings of different lengths; categories 2 and 4 relabel,
\* categories 1 and 3 mask
OrderText == <<"Paris">>
OrderCorpora == {{}, {<<1, 1, "LOC">>}}
OrderEpochs == {<<2>>, <<9>>, <<1, 0>>}
OrderConfigs ==
  {cfg \in [CategoryIds -> {Disabled} \cup
              StepConfigs(OrderEpochs, {"mask", "relabel"}, {"left"})] :
     \A c \in Enabled(cfg) :
       cfg[c].modification = IF c \in {"2", "4"} THEN "relabel" ELSE "mask"}
SpecOrder == RunInit(OrderConfigs, OrderText, OrderCorpora) /\ [][RunNext]_vars

\* ---- the span codec: add_bioes_ner_tags, then the decoding at the end of
\* ---- mask_category / relabel_category
CodecLen == 4            \* tokens of the sentence
CodecTypes == {"LOC", "PER"}

RECURSIVE SpanSets(_)
\* the sets of non-overlapping spans over the tokens 1..n
SpanSets(n) ==
  IF n = 0 THEN {{}}
  ELSE SpanSets(n - 1) \cup
       UNION {{sp \cup {<<f, n, ty>>} : sp \in SpanSets(f - 1)} :
                <<f, ty>> \in (1..n) \X CodecTypes}

CodecInit ==
  /\ HistOff
  /\ \E spans \in SpanSets(CodecLen) : ner = <<spans>>
  /\ ner_bio = <<[i \in 1..CodecLen |-> "O"]>>
  /\ predicted_bio = <<[i \in 1..CodecLen |-> "O"]>>
  /\ metric = <<[i \in 1..CodecLen |-> 0]>>
  /\ ner_new_bio = <<[i \in 1..CodecLen |-> "O"]>>
  /\ ner_new = <<{}>>
  /\ call = NoCall
  /\ config = NoConfig
  /\ category_configs = <<>>
  /\ run_pc = "codec"
  /\ step_idx = 0
  /\ applied = <<>>
  /\ epoch_logs = NoLogs
  /\ OutOff

\* add_bioes_ner_tags on the observed column, for ner_bio and for ner_new_bio
Encode ==
  /\ run_pc = "codec"
  /\ ner_bio' = [s \in DOMAIN ner |-> add_bioes_ner_tags(ner[s], Len(ner_bio[s]))]
  /\ ner_new_bio' = [s \in DOMAIN ner |-> add_bioes_ner_tags(ner[s], Len(ner_bio[s]))]
  /\ run_pc' = "encoded"
  /\ UNCHANGED <<ner, predicted_bio, metric, ner_new, call>>
  /\ UNCHANGED <<config, category_configs, step_idx, applied, epoch_logs>>
  /\ UNCHANGED hvars
  /\ UNCHANGED ovars

\* the decoding of the working tags into the spans of the new column
Decode ==
  /\ run_pc = "encoded"
  /\ ner_new' = [s \in DOMAIN ner |-> write_new_spans(ner_new[s], ner_new_bio[s])]
  /\ run_pc' = "decoded"
  /\ UNCHANGED <<ner_bio, ner, predicted_bio, metric, ner_new_bio, call>>
  /\ UNCHANGED <<config, category_configs, step_idx, applied, epoch_logs>>
  /\ UNCHANGED hvars
  /\ UNCHANGED ovars

CodecNext == Encode \/ Decode
SpecCodec == CodecInit /\ [][CodecNext]_vars

\* ---- the two encoders of spans as token tags: add_bioes_ner_tags of the
\* ---- pipeline and _get_gold_labels of the tagger
TagFormats == {"BIOES", "BIO"}

\* _get_gold_labels on the batch made of the sentence, for the label type ner
GetGoldLabels ==
  /\ hist_pc = "off"
  /\ run_pc \in {"codec", "encoded"}
  /\ pending = NoPending
  /\ \E tag_format \in TagFormats :
       pending' = [batch |-> <<1>>,
                   tag_format |-> tag_format,
                   gold_labels |-> get_gold_labels(ner[1], Len(ner_bio[1]), tag_format)]
  /\ UNCHANGED <<metric_history, hist_pc, logged, visits, fed, probs, batches_done>>
  /\ UNCHANGED dvars
  /\ UNCHANGED rvars
  /\ UNCHANGED ovars

GoldNext == Encode \/ GetGoldLabels
SpecGold == CodecInit /\ [][GoldNext]_vars

\* ---- the two evaluations on any pair of label columns, empty ones included ----
EvalLen == 2             \* tokens of the evaluated sentence

EvalInit ==
  /\ HistOff
  /\ \E column1 \in SpanSets(EvalLen), column2 \in SpanSets(EvalLen) :
       /\ ner = <<column1>>
       /\ ner_new = <<column2>>
  /\ ner_bio = <<[i \in 1..EvalLen |-> "O"]>>
  /\ predicted_bio = <<[i \in 1..EvalLen |-> "O"]>>
  /\ metric = <<[i \in 1..EvalLen |-> 0]>>
  /\ ner_new_bio = <<[i \in 1..EvalLen |-> "O"]>>
  /\ call = NoCall
  /\ config = NoConfig
  /\ category_configs = <<>>
  /\ run_pc = "eval"
  /\ step_idx = 0
  /\ applied = <<>>
  /\ epoch_logs = NoLogs
  /\ OutOff

EvalNext == EvaluateColumns \/ EvaluateEarlyExit
SpecEval == EvalInit /\ [][EvalNext]_vars

\* ---- run_experiment on a baseline directory where epoch logs may be missing ----
MissingText == <<"Paris">>
MissingCorpora == {{}, {<<1, 1, "LOC">>}}
MissingFiles == SUBSET {<<1>>, <<2>>}
MissingNext == RunNext \/ RunStepRaises
SpecMissing ==
  RunInitFiles(RemedConfigs, MissingText, MissingCorpora, MissingFiles) /\ [][MissingNext]_vars

(***************************************************************************)
(* Claims about the metrics engine                                         *)
(***************************************************************************)
Initialised(t) == has_history(metric_history, t)

\* C1: for every token with a history, the stored total_epochs equals the
\* length of the stored correctness history hist_MILD, after initialisation
\* and after any number of epoch updates.
C1_TotalEpochsIsHistoryLength ==
  \A t \in HTokens :
    Initialised(t) => metric_history[t].total_epochs = Len(metric_history[t].hist_MILD)

\* C2: the mild_f, mild_m and mild values logged for a token at its n-th
\* update since initialisation are calculate_mild_f, calculate_mild_m and
\* their difference on exactly the n flags f1..fn of those updates.
C2_MildOfFedFlags ==
  \A t \in HTokens :
    (hist_pc = "idle" /\ fed[t] # <<>>) =>
      /\ logged[t].mild_f = calculate_mild_f(fed[t])
      /\ logged[t].mild_m = calculate_mild_m(fed[t])
      /\ logged[t].mild = calculate_mild_m(fed[t]) - calculate_mild_f(fed[t])

\* C8: whatever the composition and order of the batches, a token's history
\* is never reset: its total_epochs is the number of completed batches that
\* contained it.
C8_TotalEpochsCountsBatches ==
  \A t \in HTokens :
    hist_pc = "idle" =>
      /\ Initialised(t) => metric_history[t].total_epochs = visits[t]
      /\ ~ Initialised(t) => visits[t] = 0

(***************************************************************************)
(* Claims about the remediation pipeline                                   *)
(***************************************************************************)
Positions(s) == DOMAIN ner_new_bio[s]

\* C3: in a schedule run by run_experiment, once a token's working tag is
\* S-MASK no later step changes it.
C3_MaskedStaysMasked ==
  [][\A s \in DOMAIN ner_new_bio : \A i \in Positions(s) :
       (run_pc = "steps" /\ ner_new_bio[s][i] = "S-MASK") => ner_new_bio'[s][i] = "S-MASK"]_vars

\* the tokens of sentence s that are in the category of the last call and
\* pass its threshold test
Triggered(s) ==
  {i \in Positions(s) :
     /\ in_category(ner_bio[s][i], predicted_bio[s][i], call.category_id)
     /\ passes_threshold(metric[s][i], call.threshold, call.direction)}

ScenarioLoaded ==
  /\ ner_bio = <<(<<"B-LOC", "O", "O">>)>>
  /\ predicted_bio = <<(<<"O", "O", "O">>)>>
  /\ metric = <<(<<2, 9, 9>>)>>

ScenarioRelabelled ==
  /\ ScenarioLoaded
  /\ call.fn = "relabel"
  /\ call.count = 1
  /\ call.threshold = 5
  /\ call.direction = "left"
  /\ call.category_id = "4"

\* C4: after relabel_category every token in the step's category that passes
\* the threshold test carries its predicted tag and is counted once in
\* tokens_changed; after a token relabelled to O the following tokens keep
\* their tags until the next token that passes the test; in the scenario
\* [Paris, is, nice] the working tags are [O, O, O], the counts (1, 0) and
\* the new column has no LOC span.
C4_RelabelSetsPrediction ==
  call.fn = "relabel" =>
    /\ \A s \in DOMAIN ner_new_bio : \A i \in Triggered(s) :
         ner_new_bio[s][i] = predicted_bio[s][i]
    /\ call.tokens_changed = SumSeq([s \in DOMAIN ner_new_bio |-> Cardinality(Triggered(s))])
    /\ \A s \in DOMAIN ner_new_bio : \A i \in Triggered(s) : \A j \in Positions(s) :
         (predicted_bio[s][i] = "O" /\ i < j /\ \A k \in (i + 1)..j : k \notin Triggered(s))
           => \A k \in (i + 1)..j : ner_new_bio[s][k] = call.before[s][k]
    /\ ScenarioRelabelled =>
         /\ ner_new_bio = <<(<<"O", "O", "O">>)>>
         /\ call.tokens_changed = 1
         /\ call.tokens_changed_additionally = 0
         /\ ~ \E x \in ner_new[1] : x[3] = "LOC"

C4_Witness ==
  /\ ScenarioRelabelled
  /\ ner_new_bio[1][1] = "O"
  /\ call.before[1][1] = "B-LOC"

\* the category ids whose test a token with these tags satisfies
CategoriesOf(observed, predicted) ==
  {c \in CategoryIds : in_category(observed, predicted, c)}

\* C5: for every loaded token whose observed tag does not end in MASK the
\* category test holds for exactly one id, the one given by
\* (match, O) = (T,T) -> 1, (F,T) -> 2, (T,F) -> 3, (F,F) -> 4; for an
\* observed tag ending in MASK it holds for no id.
C5_ExactlyOneCategory ==
  \A s \in DOMAIN ner_bio : \A i \in DOMAIN ner_bio[s] :
    LET observed == ner_bio[s][i]
        predicted == predicted_bio[s][i]
    IN  CategoriesOf(observed, predicted) =
          IF EndsWith(observed, "MASK") THEN {}
          ELSE IF observed = predicted /\ observed = "O" THEN {"1"}
          ELSE IF observed # predicted /\ observed = "O" THEN {"2"}
          ELSE IF observed = predicted THEN {"3"}
          ELSE {"4"}

C5_Witness ==
  /\ call.count >= 1
  /\ EndsWith(ner_bio[1][1], "MASK")
  /\ ner_bio[1][2] = "B-LOC" /\ predicted_bio[1][2] = "S-PER"
  /\ ner_bio[1][3] = "B-LOC" /\ predicted_bio[1][3] = "B-LOC"
  /\ call.category_id = "4"
  /\ 2 \in Triggered(1)

\* C6: a second mask_category call right after a first one, with the same
\* observed tags, predictions, metric values, threshold, direction and
\* category, leaves every working tag as the first call left it.
C6_MaskIdempotent ==
  [][(call.fn = "mask" /\ call'.fn = "mask" /\ call'.count = call.count + 1
      /\ call'.threshold = call.threshold /\ call'.direction = call.direction
      /\ call'.category_id = call.category_id
      /\ ner_bio' = ner_bio /\ predicted_bio' = predicted_bio /\ metric' = metric)
     => ner_new_bio' = ner_new_bio]_vars

C6_Witness ==
  /\ run_pc = "direct"
  /\ call.fn = "mask"
  /\ call.count = 2
  /\ call.before = ner_new_bio
  /\ \E i \in Positions(1) : ner_new_bio[1][i] = "S-MASK" /\ ner_bio[1][i] # "S-MASK"

\* C7: a mask_category or relabel_category call leaves the observed spans,
\* the observed token tags, the predictions and the metric values as they were.
C7_OnlyWorkingColumnsWritten ==
  [][call'.count # call.count =>
       /\ ner' = ner
       /\ ner_bio' = ner_bio
       /\ predicted_bio' = predicted_bio
       /\ metric' = metric]_vars

C7_Witness ==
  /\ run_pc = "direct"
  /\ call.count >= 1
  /\ ner_new_bio # call.before
  /\ ner_new_bio # ner_bio
  /\ ner_new[1] # {}

InDeclarationOrder(a, b) ==
  \E i, j \in DOMAIN CategoryOrder : i < j /\ CategoryOrder[i] = a /\ CategoryOrder[j] = b

\* C9: the steps are applied in non-decreasing epoch_change order, compared
\* as integers; steps of equal epoch_change are applied in category order
\* 1, 2, 3, 4; only enabled categories contribute a step, each with its own
\* configuration, and at the end every enabled category has been applied once.
C9_AppliedInEpochOrder ==
  /\ \A i, j \in DOMAIN applied :
       i < j =>
         /\ ParseInt(applied[i].epoch_change) <= ParseInt(applied[j].epoch_change)
         /\ ParseInt(applied[i].epoch_change) = ParseInt(applied[j].epoch_change)
              => InDeclarationOrder(applied[i].id, applied[j].id)
  /\ \A i \in DOMAIN applied :
       /\ applied[i].id \in Enabled(config)
       /\ applied[i] = [config[applied[i].id] EXCEPT !.id = applied[i].id]
  /\ run_pc = "done" => {applied[i].id : i \in DOMAIN applied} = Enabled(config)

C9_Witness ==
  /\ run_pc = "done"
  /\ config["1"] # Disabled /\ config["1"].epoch_change = <<1, 0>>
  /\ config["2"] # Disabled /\ config["2"].epoch_change = <<9>>
  /\ config["3"] = Disabled
  /\ config["4"] # Disabled /\ config["4"].epoch_change = <<9>>
  /\ Len(applied) = 3
  /\ applied[1].id = "2" /\ applied[2].id = "4" /\ applied[3].id = "1"

\* C10: when a step of the schedule has a direction that is neither left
\* nor right, no mask_category or relabel_category call is made and no
\* working tag is modified.
C10_MalformedDirectionRejected ==
  (\E i \in DOMAIN category_configs : category_configs[i].direction \notin {"left", "right"})
    => /\ call.count = 0
       /\ applied = <<>>
       /\ run_pc = "steps" =>
            ner_new_bio = [s \in DOMAIN ner |-> add_bioes_ner_tags(ner[s], Len(ner_new_bio[s]))]

\* C11: when the epoch log of a scheduled step does not exist, run_experiment
\* ends with an error naming that file; the failing step changes no label,
\* metric or prediction and loads no log, only steps whose log exists are
\* ever applied, nothing happens after the error, and neither noise_f1.txt
\* nor the remediated output is ever written.
C11_MissingLogIsFatal ==
  [][
      /\ (run_pc' = "raised" /\ run_pc # "raised") =>
            (/\ error'.raised
             /\ error'.file = category_configs[step_idx + 1].epoch_change
             /\ error'.file \notin log_files
             /\ UNCHANGED dvars
             /\ UNCHANGED <<applied, step_idx, epoch_logs, noise_f1s, written>>)
      /\ (run_pc = "raised" => UNCHANGED vars)
      /\ \A i \in DOMAIN applied' : applied'[i].epoch_change \in log_files
      /\ (\E i \in DOMAIN category_configs' : category_configs'[i].epoch_change \notin log_files)
           => (run_pc' # "done" /\ DOMAIN written' = {})
    ]_vars

C11_Witness ==
  /\ run_pc = "raised"
  /\ step_idx = 1
  /\ Len(applied) = 1
  /\ Len(category_configs) = 2
  /\ error.file = category_configs[2].epoch_change
  /\ ner_new_bio # call.before
  /\ DOMAIN written = {}

\* the sum of the first k probabilities of ps
ConfidenceSumAt(ps, k) == SumSeq(SubSeq(ps, 1, k))

\* the sum over the epochs k of (p_k - confidence_k)^2, confidence_k the mean
\* of p_1..p_k, in the units of last_sq_difference_sum
SqDifferenceSum(ps) ==
  SumSeq([k \in 1..Len(ps) |->
            (ps[k] * K - (ConfidenceSumAt(ps, k) * K) \div k)
            * (ps[k] * K - (ConfidenceSumAt(ps, k) * K) \div k)])

\* C12: for the true-label probabilities p_1..p_n fed to a token since its
\* initialisation, the stored last_confidence_sum is p_1+...+p_n,
\* total_epochs is n, the logged confidence is that sum over n, and the
\* stored last_sq_difference_sum (and the logged variability under the
\* root) is the sum over k of (p_k - confidence_k)^2.
C12_IncrementalEqualsReplay ==
  \A t \in HTokens :
    (hist_pc = "idle" /\ probs[t] # <<>>) =>
      /\ metric_history[t].last_confidence_sum = SumSeq(probs[t])
      /\ metric_history[t].total_epochs = Len(probs[t])
      /\ logged[t].confidence = <<SumSeq(probs[t]), Len(probs[t])>>
      /\ metric_history[t].last_sq_difference_sum = SqDifferenceSum(probs[t])
      /\ logged[t].variability_sq = <<SqDifferenceSum(probs[t]), Len(probs[t])>>

C12_Witness ==
  /\ hist_pc = "idle"
  /\ probs[<<1, 1>>] = <<1, 3, 2>>
  /\ metric_history[<<1, 1>>].last_confidence_sum = 6
  /\ metric_history[<<1, 1>>].last_sq_difference_sum > 0

\* C13: for every set of non-overlapping spans, single-token spans and
\* adjacent spans of one type included, decoding the tags written by
\* add_bioes_ner_tags gives back exactly the spans, with their values.
C13_CodecRoundTrip ==
  run_pc = "decoded" => ner_new = ner

C13_Witness ==
  /\ run_pc = "decoded"
  /\ ner = <<{<<1, 1, "LOC">>, <<2, 3, "LOC">>, <<4, 4, "PER">>}>>
  /\ ner_new_bio = <<(<<"S-LOC", "B-LOC", "E-LOC", "S-PER">>)>>
  /\ ner_new = ner

\* C14: noise_f1.txt holds one entry per applied step, last step first, and
\* the entry of step i holds the F1 appended right after step i together
\* with the two counts that step i's mask or relabel call returned.
C14_ReportEntryPerStep ==
  (run_pc = "done" /\ "noise_f1.txt" \in DOMAIN written) =>
    LET report == written["noise_f1.txt"]
        k == Len(applied)
    IN  /\ Len(report) = k
        /\ \A i \in 1..k :
             /\ report[k - i + 1].noise_f1 = noise_f1s[i]
             /\ report[k - i + 1].tokens_changed = step_returns[i][1]
             /\ report[k - i + 1].tokens_changed_additionally = step_returns[i][2]

\* C15: after every step of a schedule, the spans of the new column of every
\* sentence are exactly the decoding of its current working tags.
C15_NewSpansAreDecodedTags ==
  (run_pc = "steps" /\ step_idx >= 1) =>
    \A s \in DOMAIN ner_new : ner_new[s] = get_spans_from_bio(ner_new_bio[s])

\* C18: after copy_new_tag_to_original the labelled spans of the original
\* column of every sentence are exactly those of the new column.
C18_CopyBackReplacesOriginal ==
  (run_pc = "done" /\ step_idx >= 1) =>
    \A s \in DOMAIN ner : ner[s] = ner_new[s]

\* the positions of sentence s that the last call relabelled, by threshold
\* or by propagation
Relabelled(s) == call.by_threshold[s] \cup call.by_propagation[s]

\* C16: relabel_category relabels a token by propagation only when the token
\* right before it was itself relabelled in the same pass, by threshold or
\* by propagation, to a tag other than O.
C16_PropagationNeedsRelabelledNeighbour ==
  call.fn = "relabel" =>
    \A s \in DOMAIN ner_new_bio : \A i \in call.by_propagation[s] :
      /\ i > 1
      /\ (i - 1) \in Relabelled(s)
      /\ ner_new_bio[s][i - 1] # "O"

\* C17: a token right after a token relabelled in this pass to an entity
\* type, whose observed and predicted tags both end in that type, is
\* relabelled to its predicted tag, also when it is in the step's category
\* and fails the threshold test.
C17_PropagationReachesCategoryTokens ==
  call.fn = "relabel" =>
    \A s \in DOMAIN ner_new_bio : \A i \in Positions(s) :
      (/\ i > 1
       /\ (i - 1) \in Relabelled(s)
       /\ ner_new_bio[s][i - 1] # "O"
       /\ EndsWith(ner_bio[s][i], TagType(ner_new_bio[s][i - 1]))
       /\ EndsWith(predicted_bio[s][i], TagType(ner_new_bio[s][i - 1])))
      => (i \in Relabelled(s) /\ ner_new_bio[s][i] = predicted_bio[s][i])

\* C19: between the read of the histories of a batch and the write-back of
\* _log_metrics, every field of the stored history of every token of the
\* batch still holds the value that was read.
C19_HistoryUntouchedUntilWriteBack ==
  hist_pc = "calculated" =>
    \A t \in Range(Flatten(pending.batch)) :
      /\ metric_history[t] = pending.history_read[t]
      /\ pending.history_metrics_dict[t] = pending.history_read[t]

\* the number of flags equal to v that come after at least one flag other
\* than v: the total length of the maximal runs of v that are preceded by
\* another value
LengthOfRunsAfterOther(flags, v) ==
  Cardinality({i \in DOMAIN flags :
                 flags[i] = v /\ \E j \in 1..(i - 1) : flags[j] # v})

MaximalRuns(flags, v) ==
  {r \in (DOMAIN flags) \X (DOMAIN flags) :
     /\ r[1] <= r[2]
     /\ \A i \in r[1]..r[2] : flags[i] = v
     /\ (r[1] = 1 \/ flags[r[1] - 1] # v)
     /\ (r[2] = Len(flags) \/ flags[r[2] + 1] # v)}

\* the total length of the maximal runs of v: every position holding v lies
\* in exactly one of them
LengthOfRuns(flags, v) ==
  Cardinality({i \in DOMAIN flags : \E r \in MaximalRuns(flags, v) : r[1] <= i /\ i <= r[2]})

LayerPred == [i \in 1..Len(pending.scores) |-> ArgMax(pending.scores[i])]
LayerResult == logged[<<1, 1>>]

\* the number of consecutive layers, going down from the penultimate one,
\* that predict what the last layer predicts
AgreeingRunBelowLast(pred) ==
  CHOOSE k \in 0..(Len(pred) - 1) :
    /\ \A j \in 1..k : pred[Len(pred) - j] = pred[Len(pred)]
    /\ (k = Len(pred) - 1 \/ pred[Len(pred) - k - 1] # pred[Len(pred)])

\* C21: prediction_depth = L - k, k the number of consecutive layers from
\* L-2 down to 0 that agree with the last layer before the first mismatch;
\* so it is 1 when every layer agrees and L when layer L-2 disagrees.
C21_PredictionDepthCountsFromPenultimate ==
  hist_pc = "layers_done" =>
    LayerResult.prediction_depth = Len(LayerPred) - AgreeingRunBelowLast(LayerPred)

\* the layers, by Python index, that predict the gold label
LayersPredicting(pred, y) == {i \in 0..(Len(pred) - 1) : pred[i + 1] = y}

\* C22: first_layer is the smallest layer index predicting the gold label and
\* L when no layer predicts it; total_agree_w_correct is the number of layers
\* predicting it; first_layer = L exactly when total_agree_w_correct = 0.
C22_FirstLayerIsLowestCorrect ==
  hist_pc = "layers_done" =>
    LET match == LayersPredicting(LayerPred, pending.gold_label)
    IN  /\ LayerResult.total_agree_w_correct = Cardinality(match)
        /\ match = {} => LayerResult.first_layer = Len(LayerPred)
        /\ match # {} =>
             /\ LayerResult.first_layer \in match
             /\ \A i \in match : LayerResult.first_layer <= i
        /\ (LayerResult.first_layer = Len(LayerPred)) <=>
             (LayerResult.total_agree_w_correct = 0)

C22_Witness ==
  /\ hist_pc = "layers_done"
  /\ LayerPred = <<0, 1, 0, 1>>
  /\ pending.gold_label = 1
  /\ LayerResult.first_layer = 1
  /\ LayerResult.total_agree_w_correct = 2

UpdatedTokens == Range(Flatten(pending.batch))

\* C23: an epoch update sets last_iteration to the new epoch count n when
\* this epoch's prediction differs from the stored last_prediction and
\* leaves it unchanged otherwise; the first update after initialisation sets
\* it to 1; after every update 1 <= last_iteration <= total_epochs, so the
\* logged iter_norm lies in (0, 1].
C23_LastIterationTracksChange ==
  [][
      (hist_pc = "calculated" /\ hist_pc' = "idle") =>
        \A t \in UpdatedTokens :
          /\ metric_history'[t].last_iteration =
               IF metric_history'[t].last_prediction # metric_history[t].last_prediction
               THEN metric_history'[t].total_epochs
               ELSE metric_history[t].last_iteration
          /\ metric_history'[t].total_epochs = 1 => metric_history'[t].last_iteration = 1
          /\ 1 <= metric_history'[t].last_iteration
          /\ metric_history'[t].last_iteration <= metric_history'[t].total_epochs
          /\ logged'[t].iter_norm = <<metric_history'[t].last_iteration,
                                      metric_history'[t].total_epochs>>
    ]_vars

C23_Witness ==
  /\ hist_pc = "idle"
  /\ Initialised(<<1, 1>>)
  /\ metric_history[<<1, 1>>].total_epochs = 3
  /\ metric_history[<<1, 1>>].last_iteration = 2
  /\ logged[<<1, 1>>].iter_norm = <<2, 3>>

\* C24: a completed epoch update adds 1 to the entry of this epoch's
\* predicted label in the token's prediction-count vector and leaves the
\* other entries as they were read; whenever no update is in progress the
\* entries sum to total_epochs and the vector has one entry per label.
C24_PredictionCountsSumToEpochs ==
  [][
      /\ (hist_pc = "calculated" /\ hist_pc' = "idle") =>
           \A t \in UpdatedTokens :
             metric_history'[t].hist_prediction =
               [pending.history_read[t].hist_prediction EXCEPT
                  ![metric_history'[t].last_prediction] = @ + 1]
      /\ hist_pc' # "calculated" =>
           \A t \in HTokens :
             has_history(metric_history', t) =>
               /\ DOMAIN metric_history'[t].hist_prediction = LabelIdx
               /\ SumSeq([i \in 1..tagset_size |-> metric_history'[t].hist_prediction[i - 1]])
                    = metric_history'[t].total_epochs
    ]_vars

C24_Witness ==
  /\ hist_pc = "idle"
  /\ Initialised(<<1, 1>>)
  /\ metric_history[<<1, 1>>].total_epochs = 3
  /\ metric_history[<<1, 1>>].hist_prediction[0] = 2
  /\ metric_history[<<1, 1>>].hist_prediction[1] = 1

StrictlyBeyond(value, threshold, direction) ==
  \/ direction = "left" /\ value < threshold
  \/ direction = "right" /\ value > threshold

\* the tokens whose working tag the last call changed
ChangedByCall == {p \in UNION {{<<s, i>> : i \in Positions(s)} : s \in DOMAIN ner_new_bio} :
                    ner_new_bio[p[1]][p[2]] # call.before[p[1]][p[2]]}

\* C25: a token is masked, or relabelled by threshold, only if it is in the
\* step's category and its metric is strictly below (left) or strictly above
\* (right) the threshold; a token whose metric equals the threshold is not
\* masked and not counted in tokens_changed, and mask_category leaves every
\* token outside the category as it was.
C25_ThresholdTestIsStrict ==
  call.fn # "none" =>
    \A s \in DOMAIN ner_new_bio : \A i \in Positions(s) :
      LET inside == in_category(ner_bio[s][i], predicted_bio[s][i], call.category_id)
          beyond == StrictlyBeyond(metric[s][i], call.threshold, call.direction)
      IN  /\ i \in call.by_threshold[s] => (inside /\ beyond)
          /\ (call.fn = "mask" /\ <<s, i>> \in ChangedByCall) => (inside /\ beyond)
          /\ (call.fn = "relabel" /\ inside /\ <<s, i>> \in ChangedByCall) => beyond
          /\ metric[s][i] = call.threshold =>
               /\ i \notin call.by_threshold[s]
               /\ (call.fn = "mask" \/ inside) => <<s, i>> \notin ChangedByCall
          /\ call.tokens_changed =
               SumSeq([x \in DOMAIN ner_bio |->
                         Cardinality({j \in Positions(x) :
                            /\ in_category(ner_bio[x][j], predicted_bio[x][j], call.category_id)
                            /\ StrictlyBeyond(metric[x][j], call.threshold, call.direction)})])

C25_Witness ==
  /\ call.fn = "mask"
  /\ call.count = 1
  /\ call.direction = "left"
  /\ metric[1] = <<5, 2>>
  /\ in_category(ner_bio[1][1], predicted_bio[1][1], call.category_id)
  /\ ner_new_bio[1][1] = ner_bio[1][1]
  /\ ner_new_bio[1][2] = "S-MASK"
  /\ call.tokens_changed = 1

\* C30: in every step of a schedule, tokens_changed +
\* tokens_changed_additionally is the number of tokens whose working tag
\* after the step differs from its working tag before the step.
C30_CountersCountRealChanges ==
  (run_pc = "steps" /\ call.fn # "none") =>
    call.tokens_changed + call.tokens_changed_additionally = Cardinality(ChangedByCall)

(***************************************************************************)
(* Claims about evaluation and encoding                                    *)
(***************************************************************************)
\* neither column holds a span
NoSpanAtAll == span_keys(ner) = {} /\ span_keys(ner_new) = {}

\* C26: when the two compared columns hold no span at all, both evaluations
\* return precision, recall, F1 and accuracy 0 through the explicit
\* fallback: the classification report is not invoked and nothing is raised.
C26_DegenerateEvaluationIsZero ==
  (run_pc \in {"evaluated", "raised"} /\ call.fn \in {"calculate_f1_between_columns", "evaluate"}
   /\ NoSpanAtAll) =>
    /\ ~ error.raised
    /\ ~ call.report_invoked
    /\ call.scores = ZeroScores

\* the tokens of sentence s that lie in no span of the observed column
OutsideSpans(s) == {i \in DOMAIN ner_bio[s] : ~ \E x \in ner[s] : x[1] <= i /\ i <= x[2]}

\* C27: add_bioes_ner_tags gives S-<value> to the token of a single-token
\* span, B-<value> to the first and E-<value> to the last token of a longer
\* span, I-<value> to the tokens between them and O to every token outside
\* all spans; the BIOES branch of _get_gold_labels gives the same tags for
\* the same spans.
C27_EncodersAgreeOnBIOES ==
  /\ run_pc = "encoded" =>
       \A s \in DOMAIN ner :
         /\ \A x \in ner[s] :
              /\ x[1] = x[2] => ner_bio[s][x[1]] = MakeTag("S", x[3])
              /\ x[1] < x[2] =>
                   /\ ner_bio[s][x[1]] = MakeTag("B", x[3])
                   /\ ner_bio[s][x[2]] = MakeTag("E", x[3])
                   /\ \A i \in (x[1] + 1)..(x[2] - 1) : ner_bio[s][i] = MakeTag("I", x[3])
         /\ \A i \in OutsideSpans(s) : ner_bio[s][i] = "O"
  /\ (run_pc = "encoded" /\ pending # NoPending /\ pending.tag_format = "BIOES") =>
       pending.gold_labels = ner_bio[1]

C27_Witness ==
  /\ run_pc = "encoded"
  /\ pending # NoPending
  /\ pending.tag_format = "BIOES"
  /\ ner = <<{<<1, 3, "LOC">>, <<4, 4, "PER">>}>>
  /\ ner_bio = <<<<"B-LOC", "I-LOC", "E-LOC", "S-PER">>>>
  /\ pending.gold_labels = <<"B-LOC", "I-LOC", "E-LOC", "S-PER">>

====
